---------------------------- MODULE Spec2Model ----------------------------
(***************************************************************************)
(* A model of vibestation: the message path engine (message/message.go,    *)
(* message/jsonpath.go), the transforms and the pipeline applier           *)
(* (transform/*.go), the SUB script parser (config/sublang.go), the        *)
(* command that loads a script and runs it (cmd/main.go, vibestation.go),  *)
(* and callers of Vibestation.Transform that run at the same time.         *)
(*                                                                         *)
(* Go values (interface{}) are tagged records: the tag t names the dynamic *)
(* type and one further field holds the payload.  A []byte buffer is       *)
(* NoBytes (nil or empty), Text(s) (bytes that are not a JSON document) or *)
(* Json(v), a JSON document identified with the value json.Unmarshal       *)
(* decodes it to.                                                          *)
(***************************************************************************)
EXTENDS Integers, Sequences, FiniteSets, TLC

VARIABLES
    \* a message under API calls
    msg, pre, last, nops,
    \* a run of transform.Apply
    tf, heap, msgs, resultMsgs, nextResultMsgs, stage, rec, pc, ret, calls,
    stdout,
    \* runs of Parser.Parse on one script
    script, parsed,
    \* callers of Vibestation.Transform that run at the same time
    go, mu, owner, alone, accesses

msgVars == <<msg, pre, last, nops>>

applyVars ==
    <<tf, heap, msgs, resultMsgs, nextResultMsgs, stage, rec, pc, ret, calls,
      stdout>>

parseVars == <<script, parsed>>

goVars == <<go, mu, owner, alone, accesses>>

vars == <<msgVars, applyVars, parseVars, goVars>>

-----------------------------------------------------------------------------
(* Strings (package strings, strconv) *)

Char(s, i) == SubSeq(s, i, i)

Whitespace == {" ", "\t", "\n", "\r"}

RECURSIVE TrimLeft(_)
TrimLeft(s) ==
    IF Len(s) > 0 /\ Char(s, 1) \in Whitespace
    THEN TrimLeft(SubSeq(s, 2, Len(s)))
    ELSE s

RECURSIVE TrimRight(_)
TrimRight(s) ==
    IF Len(s) > 0 /\ Char(s, Len(s)) \in Whitespace
    THEN TrimRight(SubSeq(s, 1, Len(s) - 1))
    ELSE s

TrimSpace(s) == TrimRight(TrimLeft(s))

HasPrefix(s, p) == Len(s) >= Len(p) /\ SubSeq(s, 1, Len(p)) = p

\* Where the character c stands in s.
Positions(s, c) == { n \in 1..Len(s) : Char(s, n) = c }

\* The k-th smallest number of the set P.
Nth(P, k) == CHOOSE p \in P : Cardinality({ q \in P : q < p }) = k - 1

\* The pieces of s between the positions P.
Pieces(s, P) ==
    [k \in 1..(Cardinality(P) + 1) |->
        SubSeq(s,
               IF k = 1 THEN 1 ELSE Nth(P, k - 1) + 1,
               IF k = Cardinality(P) + 1 THEN Len(s) ELSE Nth(P, k) - 1)]

\* strings.Split(s, sep) for a one-character separator: the pieces between
\* the separators, empty pieces kept.
Split(s, sep) == Pieces(s, Positions(s, sep))

Digits == "0123456789"

IsDigit(c) == \E d \in 1..10 : Char(Digits, d) = c

DigitVal(c) == (CHOOSE d \in 1..10 : Char(Digits, d) = c) - 1

RECURSIVE DecimalValue(_)
DecimalValue(s) ==
    IF Len(s) = 0 THEN 0
    ELSE 10 * DecimalValue(SubSeq(s, 1, Len(s) - 1)) + DigitVal(Char(s, Len(s)))

\* strconv.Atoi: an optional sign, then one or more decimal digits.
Atoi(s) ==
    LET signed == Len(s) > 0 /\ Char(s, 1) \in {"+", "-"}
        body   == IF signed THEN SubSeq(s, 2, Len(s)) ELSE s
        ok     == Len(body) > 0 /\ \A i \in 1..Len(body) : IsDigit(Char(body, i))
    IN  IF ~ok THEN [ok |-> FALSE, n |-> 0]
        ELSE [ok |-> TRUE,
              n  |-> IF signed /\ Char(s, 1) = "-"
                     THEN 0 - DecimalValue(body) ELSE DecimalValue(body)]

-----------------------------------------------------------------------------
(* Go values and JSON (encoding/json) *)

GoNil      == [t |-> "nil"]
GoString(s) == [t |-> "string", s |-> s]
GoBool(b)  == [t |-> "bool", b |-> b]
GoInt(n)   == [t |-> "int", n |-> n]
GoFloat(n) == [t |-> "float64", n |-> n]
GoMap(m)   == [t |-> "map", m |-> m]
GoSlice(a) == [t |-> "slice", a |-> a]

\* make(map[string]interface{})
EmptyMap == GoMap(<<>>)

IsMap(v)   == v.t = "map"
IsSlice(v) == v.t = "slice"

\* A map write that keeps the entry a key already has.
MapPutIfAbsent(m, k, x) ==
    [j \in DOMAIN m \cup {k} |-> IF j \in DOMAIN m THEN m[j] ELSE x]

\* v[k] = x on a map[string]interface{}
MapPut(m, k, x) == [j \in DOMAIN m \cup {k} |-> IF j = k THEN x ELSE m[j]]

\* delete(v, k)
MapDelete(m, k) == [j \in DOMAIN m \ {k} |-> m[j]]

NoBytes == [k |-> "empty"]
Text(s) == [k |-> "text", s |-> s]
Json(v) == [k |-> "json", v |-> v]

\* What a value decodes to after json.Marshal and json.Unmarshal into an
\* interface{}: every number comes back as a float64.
RECURSIVE Decoded(_)
Decoded(v) ==
    CASE v.t = "int"   -> GoFloat(v.n)
      [] v.t = "map"   -> GoMap([j \in DOMAIN v.m |-> Decoded(v.m[j])])
      [] v.t = "slice" -> GoSlice([i \in DOMAIN v.a |-> Decoded(v.a[i])])
      [] OTHER         -> v

\* json.Marshal(v)
Marshal(v) == Json(Decoded(v))

\* json.Unmarshal(data, &obj): fails on empty input and on bytes that are
\* not a JSON document.
Unmarshal(data) ==
    IF data.k = "json"
    THEN [obj |-> data.v, err |-> FALSE]
    ELSE [obj |-> GoNil, err |-> TRUE]

-----------------------------------------------------------------------------
(* JSONPath (message/jsonpath.go) *)

\* NewJSONPath(path).parts: the whole path text split at the dots.
NewJSONPath(path) == IF path = "" THEN <<>> ELSE Split(path, ".")

\* The loop of getFromInterface from segment i on, current being the node
\* reached so far.
RECURSIVE getFrom(_, _, _)

\* The array case of the loop: idx is the segment as strconv.Atoi reads it.
getAtIndex(parts, i, current, idx) ==
    IF idx.ok /\ idx.n >= 0 /\ idx.n < Len(current.a)
    THEN getFrom(parts, i + 1, current.a[idx.n + 1])
    ELSE [val |-> GoNil, err |-> TRUE]

getFrom(parts, i, current) ==
    IF i > Len(parts) THEN [val |-> current, err |-> FALSE]
    ELSE CASE IsMap(current) ->
                IF parts[i] \in DOMAIN current.m
                THEN getFrom(parts, i + 1, current.m[parts[i]])
                ELSE [val |-> GoNil, err |-> TRUE]
           [] IsSlice(current) ->
                getAtIndex(parts, i, current, Atoi(parts[i]))
           [] OTHER -> [val |-> GoNil, err |-> TRUE]

getFromInterface(parts, obj) == getFrom(parts, 1, obj)

\* A write through the reference getFromInterface(parts, obj) returned: the
\* node that walk reaches is replaced by new, the rest of obj is shared.
RECURSIVE StoreAt(_, _, _)
StoreAt(obj, parts, new) ==
    IF Len(parts) = 0 THEN new
    ELSE IF IsMap(obj)
         THEN GoMap([obj.m EXCEPT ![Head(parts)] = StoreAt(@, Tail(parts), new)])
         ELSE GoSlice([obj.a EXCEPT ![Atoi(Head(parts)).n + 1] =
                                        StoreAt(@, Tail(parts), new)])

\* for len(v) <= idx { v = append(v, nil) }; v[idx] = value
SliceAssign(a, idx, value) ==
    [i \in 1..(IF idx + 1 > Len(a) THEN idx + 1 ELSE Len(a)) |->
        IF i = idx + 1 THEN value ELSE IF i <= Len(a) THEN a[i] ELSE GoNil]

\* The result of a tree operation: (obj, nil) or (nil, err).
Done(obj) == [obj |-> obj, err |-> FALSE]
Failed    == [obj |-> GoNil, err |-> TRUE]

ParentPath(parts) == SubSeq(parts, 1, Len(parts) - 1)

LastPart(parts) == parts[Len(parts)]

\* obj, _ = parentPath.setInInterface(obj, v): the error is dropped and obj
\* is whatever came back (nil with an error).
Reassigned(back) == IF back.err THEN GoNil ELSE back.obj

RECURSIVE setInInterface(_, _, _)

\* setInInterface, lines 140-160: set the value in the parent.  obj is the
\* tree, parent the node the parent path leads to (nil when that walk
\* failed), idx the last segment as strconv.Atoi reads it.
setInParent(parts, obj, value, parent, idx) ==
    CASE IsMap(parent) ->
           Done(StoreAt(obj, ParentPath(parts),
                        GoMap(MapPut(parent.m, LastPart(parts), value))))
      [] IsSlice(parent) ->
           IF idx.ok /\ idx.n >= 0
           THEN Done(Reassigned(
                    setInInterface(ParentPath(parts), obj,
                                   GoSlice(SliceAssign(parent.a, idx.n, value)))))
           ELSE Failed
      [] OTHER -> Failed

\* setInInterface, lines 131-138: the parent does not exist; created is what
\* setting an empty map at the parent path returned.
setInCreated(parts, value, created) ==
    IF created.err THEN Failed
    ELSE setInParent(parts, created.obj, value,
                     getFromInterface(ParentPath(parts), created.obj).val,
                     Atoi(LastPart(parts)))

\* setInInterface, lines 127-138: found is what the walk to the parent gave.
setBelow(parts, obj, value, found) ==
    IF found.err
    THEN setInCreated(parts, value,
                      setInInterface(ParentPath(parts), obj, EmptyMap))
    ELSE setInParent(parts, obj, value, found.val, Atoi(LastPart(parts)))

\* setInInterface, lines 116-138, obj being no longer nil.
setInObject(parts, obj, value) ==
    IF Len(parts) = 1
    THEN IF IsMap(obj)
         THEN Done(GoMap(MapPut(obj.m, parts[1], value)))
         ELSE Failed
    ELSE setBelow(parts, obj, value, getFromInterface(ParentPath(parts), obj))

setInInterface(parts, obj, value) ==
    IF Len(parts) = 0 THEN Done(value)
    ELSE setInObject(parts, IF obj = GoNil THEN EmptyMap ELSE obj, value)

\* deleteFromInterface, lines 187-202: delete the value from the parent.
deleteInParent(parts, obj, parent, idx) ==
    CASE IsMap(parent) ->
           Done(Reassigned(
               setInInterface(ParentPath(parts), obj,
                              GoMap(MapDelete(parent.m, LastPart(parts))))))
      [] IsSlice(parent) /\ idx.ok /\ idx.n >= 0 /\ idx.n < Len(parent.a) ->
           Done(Reassigned(
               setInInterface(ParentPath(parts), obj,
                              GoSlice([parent.a EXCEPT ![idx.n + 1] = GoNil]))))
      [] OTHER -> Done(obj)

\* deleteFromInterface, lines 180-185: found is what the walk to the parent
\* gave; when the parent does not exist there is nothing to delete.
deleteBelow(parts, obj, found) ==
    IF found.err THEN Done(obj)
    ELSE deleteInParent(parts, obj, found.val, Atoi(LastPart(parts)))

deleteFromInterface(parts, obj) ==
    IF Len(parts) = 0 THEN Done(obj)
    ELSE IF Len(parts) = 1
    THEN IF IsMap(obj)
         THEN Done(GoMap(MapDelete(obj.m, parts[1])))
         ELSE Failed
    ELSE deleteBelow(parts, obj, getFromInterface(ParentPath(parts), obj))

\* The tail of JSONPath.Get: u is what json.Unmarshal(data) gave.
getDecoded(parts, u) ==
    IF u.err THEN [val |-> GoNil, err |-> TRUE]
    ELSE getFromInterface(parts, u.obj)

\* JSONPath.Get(data)
JSONPathGet(parts, data) ==
    IF data.k = "empty" THEN [val |-> GoNil, err |-> FALSE]
    ELSE getDecoded(parts, Unmarshal(data))

\* return json.Marshal(obj), or (nil, err) when the tree operation failed.
Encoded(r) ==
    IF r.err THEN [data |-> NoBytes, err |-> TRUE]
    ELSE [data |-> Marshal(r.obj), err |-> FALSE]

\* The tail of JSONPath.Set: u is what json.Unmarshal(data) gave.
setDecoded(parts, u, value) ==
    IF u.err THEN [data |-> NoBytes, err |-> TRUE]
    ELSE Encoded(setInInterface(parts, u.obj, value))

\* JSONPath.Set(data, value)
JSONPathSet(parts, data, value) ==
    setDecoded(parts,
               Unmarshal(IF data.k = "empty" THEN Json(EmptyMap) ELSE data),
               value)

\* The tail of JSONPath.Delete: u is what json.Unmarshal(data) gave.
deleteDecoded(parts, u) ==
    IF u.err THEN [data |-> NoBytes, err |-> TRUE]
    ELSE Encoded(deleteFromInterface(parts, u.obj))

\* JSONPath.Delete(data)
JSONPathDelete(parts, data) ==
    IF data.k = "empty" THEN [data |-> data, err |-> FALSE]
    ELSE deleteDecoded(parts, Unmarshal(data))

-----------------------------------------------------------------------------
(* Message (message/message.go) *)

\* message.New()
New == [data |-> NoBytes, meta |-> NoBytes, ctrl |-> FALSE]

AsControl(m) == [data |-> NoBytes, meta |-> NoBytes, ctrl |-> TRUE]

IsControl(m) == m.ctrl

Data(m) == IF m.ctrl THEN NoBytes ELSE m.data

SetData(m, data) == IF m.ctrl THEN m ELSE [m EXCEPT !.data = data]

Metadata(m) == IF m.ctrl THEN NoBytes ELSE m.meta

SetMetadata(m, metadata) == IF m.ctrl THEN m ELSE [m EXCEPT !.meta = metadata]

\* isValidJSONPath after its strings.TrimSpace
validTrimmed(path) ==
    \/ path = "$"
    \/ path = "meta.$"
    \/ HasPrefix(path, "$.")
    \/ HasPrefix(path, "meta.$.")

isValidJSONPath(path) == validTrimmed(TrimSpace(path))

NotFound == [value |-> GoNil, exists |-> FALSE]

\* Value{value: obj, exists: true}, or a non-existent value on an error
Found(r) == IF r.err THEN NotFound ELSE [value |-> r.val, exists |-> TRUE]

FoundRoot(u) == IF u.err THEN NotFound ELSE [value |-> u.obj, exists |-> TRUE]

\* Message.GetValue once path = strings.TrimSpace(path)
getValueTrimmed(m, path) ==
    IF ~isValidJSONPath(path) THEN NotFound
    ELSE IF path = "$" THEN FoundRoot(Unmarshal(m.data))
    ELSE IF path = "meta.$" THEN FoundRoot(Unmarshal(m.meta))
    ELSE IF HasPrefix(path, "meta.$.")
    THEN Found(JSONPathGet(NewJSONPath(path), m.meta))
    ELSE IF HasPrefix(path, "$.")
    THEN Found(JSONPathGet(NewJSONPath(path), m.data))
    ELSE NotFound

\* Message.GetValue(path): a Value{value, exists}
GetValue(m, path) == getValueTrimmed(m, TrimSpace(path))

\* Value.Exists()
Exists(v) == v.exists /\ v.value # GoNil

\* The result of a Message method that may fail: the message afterwards and
\* whether an error was returned.
Rejected(m) == [m |-> m, err |-> TRUE]

\* m.data = data before the error is looked at.
StoredDataUnchecked(m, r) == [m |-> [m EXCEPT !.data = r.data], err |-> r.err]

\* m.data = data; return nil, or return err with m as it was
StoredData(m, r) ==
    IF r.err THEN Rejected(m) ELSE [m |-> [m EXCEPT !.data = r.data], err |-> FALSE]

\* The result for a metadata path stored in m.data.
StoredMetaAsData(m, r) ==
    IF r.err THEN Rejected(m) ELSE [m |-> [m EXCEPT !.data = r.data], err |-> FALSE]

\* m.meta = meta; return nil, or return err with m as it was
StoredMeta(m, r) ==
    IF r.err THEN Rejected(m) ELSE [m |-> [m EXCEPT !.meta = r.data], err |-> FALSE]

\* SetValue that merges a mapping set at the payload root into the mapping
\* the payload holds.
setValueMerging(m, path, value) ==
    IF ~isValidJSONPath(path) THEN Rejected(m)
    ELSE IF path = "$" /\ m.data.k = "json" /\ IsMap(m.data.v) /\ IsMap(value)
    THEN [m |-> [m EXCEPT !.data =
                    Json(GoMap([j \in DOMAIN m.data.v.m \cup DOMAIN value.m |->
                                  IF j \in DOMAIN value.m
                                  THEN Decoded(value.m[j])
                                  ELSE m.data.v.m[j]]))],
          err |-> FALSE]
    ELSE IF path = "$"
    THEN [m |-> [m EXCEPT !.data = Marshal(value)], err |-> FALSE]
    ELSE IF path = "meta.$"
    THEN [m |-> [m EXCEPT !.meta = Marshal(value)], err |-> FALSE]
    ELSE IF HasPrefix(path, "meta.$.")
    THEN StoredMeta(m, JSONPathSet(NewJSONPath(path), m.meta, value))
    ELSE IF HasPrefix(path, "$.")
    THEN StoredData(m, JSONPathSet(NewJSONPath(path), m.data, value))
    ELSE Rejected(m)

\* Message.SetValue once path = strings.TrimSpace(path)
setValueTrimmed(m, path, value) ==
    IF ~isValidJSONPath(path) THEN Rejected(m)
    ELSE IF path = "$"
    THEN [m |-> [m EXCEPT !.data = Marshal(value)], err |-> FALSE]
    ELSE IF path = "meta.$"
    THEN [m |-> [m EXCEPT !.meta = Marshal(value)], err |-> FALSE]
    ELSE IF HasPrefix(path, "meta.$.")
    THEN StoredMeta(m, JSONPathSet(NewJSONPath(path), m.meta, value))
    ELSE IF HasPrefix(path, "$.")
    THEN StoredData(m, JSONPathSet(NewJSONPath(path), m.data, value))
    ELSE Rejected(m)

\* Message.SetValue(path, value)
SetValue(m, path, value) == setValueTrimmed(m, TrimSpace(path), value)

\* DeleteValue without the isValidJSONPath check, every path that is not
\* metadata-rooted taken as a payload path.
deleteValueUnchecked(m, path) ==
    IF path = "$"
    THEN [m |-> [m EXCEPT !.data = Json(EmptyMap)], err |-> FALSE]
    ELSE IF path = "meta.$"
    THEN [m |-> [m EXCEPT !.meta = Json(EmptyMap)], err |-> FALSE]
    ELSE IF HasPrefix(path, "meta.$.")
    THEN StoredMeta(m, JSONPathDelete(NewJSONPath(path), m.meta))
    ELSE StoredData(m, JSONPathDelete(NewJSONPath(path), m.data))

\* Message.DeleteValue once path = strings.TrimSpace(path)
deleteValueTrimmed(m, path) ==
    IF ~isValidJSONPath(path) THEN Rejected(m)
    ELSE IF path = "$"
    THEN [m |-> [m EXCEPT !.data = Json(EmptyMap)], err |-> FALSE]
    ELSE IF path = "meta.$"
    THEN [m |-> [m EXCEPT !.meta = Json(EmptyMap)], err |-> FALSE]
    ELSE IF HasPrefix(path, "meta.$.")
    THEN StoredMeta(m, JSONPathDelete(NewJSONPath(path), m.meta))
    ELSE IF HasPrefix(path, "$.")
    THEN StoredData(m, JSONPathDelete(NewJSONPath(path), m.data))
    ELSE Rejected(m)

\* Message.DeleteValue(path)
DeleteValue(m, path) == deleteValueTrimmed(m, TrimSpace(path))

-----------------------------------------------------------------------------
(* Byte buffers under the transforms (transform/*.go)                       *)
(*                                                                          *)
(* Two more kinds of []byte: Gzip(b), a gzip stream that decompresses to    *)
(* the buffer b, and Opaque, bytes the model follows no further (a gzip     *)
(* stream after strings.ToLower, or decoded bytes that are not text).  A    *)
(* Text buffer never holds a JSON document.                                 *)

Gzip(b) == [k |-> "gzip", z |-> b]
Opaque  == [k |-> "opaque"]

\* []byte(s)
Bytes(s) == IF s = "" THEN NoBytes ELSE Text(s)

Upper == "ABCDEFGHIJKLMNOPQRSTUVWXYZ"
Lower == "abcdefghijklmnopqrstuvwxyz"

LowerChar(c) ==
    IF \E n \in 1..Len(Upper) : Char(Upper, n) = c
    THEN Char(Lower, CHOOSE n \in 1..Len(Upper) : Char(Upper, n) = c)
    ELSE c

\* strings.ToLower on ASCII text, one half of the text after the other
RECURSIVE ToLower(_)
ToLower(s) ==
    IF Len(s) <= 1 THEN LowerChar(s)
    ELSE ToLower(SubSeq(s, 1, Len(s) \div 2))
            \o ToLower(SubSeq(s, Len(s) \div 2 + 1, Len(s)))

\* The value of a JSON document whose text went through strings.ToLower:
\* keys and strings are lowered, true, false, null and numbers are not
\* changed.  (Keys that differ only in case are not among the inputs.)
RECURSIVE LowerValue(_)
LowerValue(v) ==
    CASE v.t = "string" -> GoString(ToLower(v.s))
      [] v.t = "map"    ->
            GoMap([lk \in {ToLower(j) : j \in DOMAIN v.m} |->
                     LowerValue(v.m[CHOOSE j \in DOMAIN v.m : ToLower(j) = lk])])
      [] v.t = "slice"  -> GoSlice([n \in DOMAIN v.a |-> LowerValue(v.a[n])])
      [] OTHER          -> v

\* []byte(strings.ToLower(string(data))).  The header of a gzip stream has
\* the byte 0x8b, which ToLower replaces: the result is no gzip stream.
ToLowerBytes(data) ==
    CASE data.k = "empty" -> NoBytes
      [] data.k = "text"  -> Text(ToLower(data.s))
      [] data.k = "json"  -> Json(LowerValue(data.v))
      [] OTHER            -> Opaque

\* The non-empty pieces of bytes.Split(data, sep).  A JSON document as
\* json.Marshal writes it, and a gzip stream, are taken to hold no
\* separator byte.
nonEmptyParts(data, sep) ==
    CASE data.k = "empty" -> <<>>
      [] data.k = "text"  ->
            SelectSeq([n \in DOMAIN Split(data.s, sep) |-> Bytes(Split(data.s, sep)[n])],
                      LAMBDA part : part # NoBytes)
      [] OTHER            -> <<data>>

B64Alphabet ==
    "ABCDEFGHIJKLMNOPQRSTUVWXYZabcdefghijklmnopqrstuvwxyz0123456789+/"

IsB64(c) == \E n \in 1..Len(B64Alphabet) : Char(B64Alphabet, n) = c

B64Val(c) ==
    IF c = "=" THEN 0
    ELSE (CHOOSE n \in 1..Len(B64Alphabet) : Char(B64Alphabet, n) = c) - 1

\* The characters of the bytes 32..95 and 97..126 (a string of the model
\* cannot hold the character of byte 96).
PrintableLow ==
    " !\"#$%&'()*+,-./0123456789:;<=>?@ABCDEFGHIJKLMNOPQRSTUVWXYZ[\\]^_"

PrintableHigh == "abcdefghijklmnopqrstuvwxyz{|}~"

IsTextByte(b) == b = 10 \/ (b >= 32 /\ b <= 95) \/ (b >= 97 /\ b <= 126)

ByteChar(b) ==
    IF b = 10 THEN "\n"
    ELSE IF b <= 95 THEN Char(PrintableLow, b - 31)
    ELSE Char(PrintableHigh, b - 96)

\* A quantum of four characters is well formed: padding only closes the
\* last quantum.
QuantumOk(q, isLast) ==
    /\ IsB64(Char(q, 1))
    /\ IsB64(Char(q, 2))
    /\ \/ IsB64(Char(q, 3))
       \/ isLast /\ Char(q, 3) = "=" /\ Char(q, 4) = "="
    /\ \/ IsB64(Char(q, 4))
       \/ isLast /\ Char(q, 4) = "="

Quantum24(q) ==
    B64Val(Char(q, 1)) * 262144 + B64Val(Char(q, 2)) * 4096
        + B64Val(Char(q, 3)) * 64 + B64Val(Char(q, 4))

QuantumPad(q) ==
    IF Char(q, 3) = "=" THEN 2 ELSE IF Char(q, 4) = "=" THEN 1 ELSE 0

\* The bytes a quantum of value n24 with pad padding characters stands for.
QuantumBytes(n24, pad) ==
    SubSeq(<<n24 \div 65536, (n24 \div 256) % 256, n24 % 256>>, 1, 3 - pad)

RECURSIVE decodeQuanta(_, _)
decodeQuanta(s, acc) ==
    IF s = "" THEN [bytes |-> acc, err |-> FALSE]
    ELSE IF Len(s) < 4 \/ ~QuantumOk(SubSeq(s, 1, 4), Len(s) = 4)
    THEN [bytes |-> <<>>, err |-> TRUE]
    ELSE decodeQuanta(SubSeq(s, 5, Len(s)),
                      acc \o QuantumBytes(Quantum24(SubSeq(s, 1, 4)),
                                          QuantumPad(SubSeq(s, 1, 4))))

RECURSIVE StripNewlines(_)
StripNewlines(s) ==
    IF Len(s) <= 1 THEN (IF s \in {"\r", "\n"} THEN "" ELSE s)
    ELSE StripNewlines(SubSeq(s, 1, Len(s) \div 2))
            \o StripNewlines(SubSeq(s, Len(s) \div 2 + 1, Len(s)))

RECURSIVE BytesText(_)
BytesText(bs) ==
    IF bs = <<>> THEN ""
    ELSE IF Len(bs) = 1 THEN ByteChar(bs[1])
    ELSE BytesText(SubSeq(bs, 1, Len(bs) \div 2))
            \o BytesText(SubSeq(bs, Len(bs) \div 2 + 1, Len(bs)))

\* The buffer of a byte sequence.
BufferOf(bs) ==
    IF \A n \in DOMAIN bs : IsTextByte(bs[n]) THEN Bytes(BytesText(bs)) ELSE Opaque

decodedBuffer(d) ==
    IF d.err THEN [buf |-> NoBytes, err |-> TRUE]
    ELSE [buf |-> BufferOf(d.bytes), err |-> FALSE]

\* base64.StdEncoding.DecodeString(s): line breaks are skipped, the rest
\* is read in padded quanta of four characters.
DecodeString(s) == decodedBuffer(decodeQuanta(StripNewlines(s), <<>>))

\* decodeBase64(data).  A JSON object, array or string starts with a
\* character outside the alphabet, a gzip stream with the byte 0x1f.
decodeBase64(data) ==
    CASE data.k = "empty" -> [buf |-> data, err |-> FALSE]
      [] data.k = "text"  -> DecodeString(TrimSpace(data.s))
      [] OTHER            -> [buf |-> NoBytes, err |-> TRUE]

\* decompressGzip(data)
decompressGzip(data) ==
    CASE data.k = "empty" -> [buf |-> data, err |-> FALSE]
      [] data.k = "gzip"  -> [buf |-> data.z, err |-> FALSE]
      [] OTHER            -> [buf |-> NoBytes, err |-> TRUE]

-----------------------------------------------------------------------------
(* Transforms (transform/*.go).  Messages are handled through pointers: h   *)
(* is the heap, a sequence of messages, and m a position in it.  A          *)
(* transform is a record whose type names its Go type; source and target    *)
(* paths of the builtin transforms are left empty.                          *)

NoError  == [nil |-> TRUE]
Error(s) == [text |-> s]

\* What a Transform call returns and does: the heap after it, the pointers
\* returned, the error, the lines printed, and whether GetValue, SetValue
\* or DeleteValue was called on the message.
Returned(h, out, touched) ==
    [heap |-> h, out |-> out, err |-> NoError, printed |-> <<>>,
     touched |-> touched]

FailedWith(h, text, touched) ==
    [heap |-> h, out |-> <<>>, err |-> Error(text), printed |-> <<>>,
     touched |-> touched]

\* return []*message.Message{msg}, nil
PassThrough(h, m) == Returned(h, <<m>>, FALSE)

\* The result slice of SplitString.Transform: one new message per part.
splitInto(h, parts) ==
    Returned(h \o [n \in DOMAIN parts |-> SetData(New, parts[n])],
             [n \in DOMAIN parts |-> Len(h) + n], FALSE)

SplitStringTransform(t, h, m) ==
    IF IsControl(h[m]) THEN PassThrough(h, m)
    ELSE splitInto(h, nonEmptyParts(Data(h[m]), t.separator))

LowercaseStringTransform(t, h, m) ==
    IF IsControl(h[m]) THEN PassThrough(h, m)
    ELSE Returned([h EXCEPT ![m] = SetData(h[m], ToLowerBytes(Data(h[m])))],
                  <<m>>, FALSE)

\* msg.SetData(d.buf) unless the decoding failed
storeDecoded(t, h, m, d, text) ==
    IF d.err THEN FailedWith(h, "transform " \o t.type \o ": " \o text, FALSE)
    ELSE Returned([h EXCEPT ![m] = SetData(h[m], d.buf)], <<m>>, FALSE)

DecodeBase64Transform(t, h, m) ==
    IF IsControl(h[m]) THEN PassThrough(h, m)
    ELSE storeDecoded(t, h, m, decodeBase64(Data(h[m])),
                      "base64 decode error: illegal base64 data")

DecompressGzipTransform(t, h, m) ==
    IF IsControl(h[m]) THEN PassThrough(h, m)
    ELSE storeDecoded(t, h, m, decompressGzip(Data(h[m])),
                      "gzip: invalid header")

sendStdoutTransform(t, h, m) ==
    IF IsControl(h[m]) THEN PassThrough(h, m)
    ELSE [PassThrough(h, m) EXCEPT !.printed = <<Data(h[m])>>]

\* DirectAssignTransformer.Transform from msg.SetValue(d.target, value) on
assignStore(t, h, m, r) ==
    IF r.err
    THEN FailedWith(h, "direct assign: failed to set target " \o t.target, TRUE)
    ELSE Returned([h EXCEPT ![m] = r.m], <<m>>, TRUE)

assignParsed(t, h, m, u) ==
    IF u.err
    THEN FailedWith(h, "direct assign: failed to parse message data as JSON",
                    FALSE)
    ELSE assignStore(t, h, m, SetValue(h[m], t.target, u.obj))

assignWhole(t, h, m, data) ==
    IF data = NoBytes THEN PassThrough(h, m)
    ELSE assignParsed(t, h, m, Unmarshal(data))

assignValue(t, h, m, sourceValue) ==
    IF ~Exists(sourceValue) THEN Returned(h, <<m>>, TRUE)
    ELSE assignStore(t, h, m, SetValue(h[m], t.target, sourceValue.value))

\* DirectAssignTransformer.Transform: it has no IsControl test.
DirectAssignTransform(t, h, m) ==
    IF t.source = "$" THEN assignWhole(t, h, m, Data(h[m]))
    ELSE assignValue(t, h, m, GetValue(h[m], t.source))

\* tf[i].Transform(ctx, m)
Transform(t, h, m) ==
    CASE t.type = "split_string"     -> SplitStringTransform(t, h, m)
      [] t.type = "lowercase_string" -> LowercaseStringTransform(t, h, m)
      [] t.type = "decode_base64"    -> DecodeBase64Transform(t, h, m)
      [] t.type = "decompress_gzip"  -> DecompressGzipTransform(t, h, m)
      [] t.type = "send_stdout"      -> sendStdoutTransform(t, h, m)
      [] t.type = "direct_assign"    -> DirectAssignTransform(t, h, m)

-----------------------------------------------------------------------------
(* More of package strings and strconv, as the SUB parser uses them.  The   *)
(* separators and characters searched for are single characters; Index and *)
(* LastIndex count from 0 and give -1 when there is no occurrence.           *)

Index(s, c) ==
    IF Positions(s, c) = {} THEN -1
    ELSE (CHOOSE n \in Positions(s, c) : \A k \in Positions(s, c) : n <= k) - 1

LastIndex(s, c) ==
    IF Positions(s, c) = {} THEN -1
    ELSE (CHOOSE n \in Positions(s, c) : \A k \in Positions(s, c) : n >= k) - 1

Contains(s, c) == Index(s, c) # -1

\* s[:n] and s[n:] of Go
Before(s, n) == SubSeq(s, 1, n)
After(s, n) == SubSeq(s, n + 1, Len(s))

\* strings.Trim(s, cutset), the cutset given as a set of characters
RECURSIVE TrimSet(_, _)
TrimSet(s, cutset) ==
    IF Len(s) > 0 /\ Char(s, 1) \in cutset THEN TrimSet(After(s, 1), cutset)
    ELSE IF Len(s) > 0 /\ Char(s, Len(s)) \in cutset
    THEN TrimSet(Before(s, Len(s) - 1), cutset)
    ELSE s

\* strconv.Itoa for n >= 0
RECURSIVE Itoa(_)
Itoa(n) ==
    IF n < 10 THEN Char(Digits, n + 1)
    ELSE Itoa(n \div 10) \o Char(Digits, (n % 10) + 1)

\* The character an escape sequence \c stands for inside the quote q, or
\* "" when the model does not read it (hexadecimal, octal and unicode
\* escapes, and \a \b \f \v, are not among the inputs).
Escaped(c, q) ==
    CASE c = "n"  -> "\n"
      [] c = "t"  -> "\t"
      [] c = "r"  -> "\r"
      [] c = "\\" -> "\\"
      [] c = q    -> q
      [] OTHER    -> ""

\* The text between the quotes q, escape sequences read.
RECURSIVE unescape(_, _, _)
unescape(s, q, acc) ==
    IF s = "" THEN [s |-> acc, err |-> FALSE]
    ELSE IF Char(s, 1) = q \/ Char(s, 1) = "\n" THEN [s |-> "", err |-> TRUE]
    ELSE IF Char(s, 1) # "\\" THEN unescape(After(s, 1), q, acc \o Char(s, 1))
    ELSE IF Len(s) < 2 \/ Escaped(Char(s, 2), q) = ""
    THEN [s |-> "", err |-> TRUE]
    ELSE unescape(After(s, 2), q, acc \o Escaped(Char(s, 2), q))

\* A character literal holds exactly one character.
oneChar(u) == IF u.err \/ Len(u.s) # 1 THEN [s |-> "", err |-> TRUE] ELSE u

\* strconv.Unquote(value) for a value in double or single quotes
Unquote(value) ==
    IF Char(value, 1) = "'"
    THEN oneChar(unescape(SubSeq(value, 2, Len(value) - 1), "'", ""))
    ELSE unescape(SubSeq(value, 2, Len(value) - 1), "\"", "")

-----------------------------------------------------------------------------
(* The SUB parser (config/sublang.go).  A descriptor, and the settings of a *)
(* call, is a map[string]interface{}: a function from key strings to Go     *)
(* values.  Where the code ranges over a Go map the order is not fixed, so  *)
(* the parsing operators give the set of results a run can produce.         *)

ParseOk(transforms) == [transforms |-> transforms, err |-> NoError]

\* return nil, err
ParseErr(text) == [transforms |-> <<>>, err |-> Error(text)]

isDirectAssignment(line) == Contains(line, "=") /\ ~Contains(line, "(")

\* The descriptor is built whatever the two sides are.
directAssignmentUnchecked(line, target, source) ==
    ParseOk(<<[id     |-> GoString("assign"),
               type   |-> GoString("assign"),
               source |-> GoString(source),
               target |-> GoString(target)]>>)

directAssignment(line, target, source) ==
    IF target = "" \/ source = ""
    THEN ParseErr("invalid assignment: " \o line)
    ELSE ParseOk(<<[id     |-> GoString("assign"),
                    type   |-> GoString("assign"),
                    source |-> GoString(source),
                    target |-> GoString(target)]>>)

\* strings.SplitN(line, "=", 2) gives two parts: the line holds a "=".
parseDirectAssignment(line) ==
    directAssignment(line,
                     TrimSpace(Before(line, Index(line, "="))),
                     TrimSpace(After(line, Index(line, "=") + 1)))

isAssignmentWithFunction(line) ==
    /\ Contains(line, "=")
    /\ Contains(line, "(")
    /\ Index(line, "(") > Index(line, "=")

isFunctionCall(line) == Contains(line, "(") /\ Contains(line, ")")

\* The loop body with a comma that ends the argument wherever it stands.
argumentCharSplitting(st, c) ==
    CASE c \in {"\"", "'"} ->
            IF ~st.inQuotes /\ st.parenDepth = 0
            THEN [st EXCEPT !.inQuotes = TRUE, !.quoteChar = c,
                            !.currentArg = @ \o c]
            ELSE IF st.inQuotes /\ c = st.quoteChar
            THEN [st EXCEPT !.inQuotes = FALSE, !.currentArg = @ \o c]
            ELSE [st EXCEPT !.currentArg = @ \o c]
      [] c = "(" ->
            [st EXCEPT !.parenDepth = IF st.inQuotes THEN @ ELSE @ + 1,
                       !.currentArg = @ \o c]
      [] c = ")" ->
            [st EXCEPT !.parenDepth = IF st.inQuotes THEN @ ELSE @ - 1,
                       !.currentArg = @ \o c]
      [] c = "," ->
            [st EXCEPT !.args = IF TrimSpace(st.currentArg) # ""
                                THEN Append(@, TrimSpace(st.currentArg))
                                ELSE @,
                       !.currentArg = ""]
      [] OTHER -> [st EXCEPT !.currentArg = @ \o c]

\* One step of the loop of parseArguments: the character c read in the
\* state st = [args, currentArg, inQuotes, quoteChar, parenDepth].
argumentChar(st, c) ==
    CASE c \in {"\"", "'"} ->
            IF ~st.inQuotes /\ st.parenDepth = 0
            THEN [st EXCEPT !.inQuotes = TRUE, !.quoteChar = c,
                            !.currentArg = @ \o c]
            ELSE IF st.inQuotes /\ c = st.quoteChar
            THEN [st EXCEPT !.inQuotes = FALSE, !.currentArg = @ \o c]
            ELSE [st EXCEPT !.currentArg = @ \o c]
      [] c = "(" ->
            [st EXCEPT !.parenDepth = IF st.inQuotes THEN @ ELSE @ + 1,
                       !.currentArg = @ \o c]
      [] c = ")" ->
            [st EXCEPT !.parenDepth = IF st.inQuotes THEN @ ELSE @ - 1,
                       !.currentArg = @ \o c]
      [] c = "," ->
            IF ~st.inQuotes /\ st.parenDepth = 0
            THEN [st EXCEPT !.args = IF TrimSpace(st.currentArg) # ""
                                     THEN Append(@, TrimSpace(st.currentArg))
                                     ELSE @,
                            !.currentArg = ""]
            ELSE [st EXCEPT !.currentArg = @ \o c]
      [] OTHER -> [st EXCEPT !.currentArg = @ \o c]

\* The state of the loop after the characters lo..hi of argsStr, read in
\* order from the state st: the first half of the range, then the second.
\* (The model checker works out an argument when it is first used; the
\* test on st makes that happen before the second half is read, which
\* keeps the evaluation shallow.)
RECURSIVE argumentsOver(_, _, _, _)
argumentsOver(argsStr, lo, hi, st) ==
    IF lo > hi \/ st.parenDepth # st.parenDepth THEN st
    ELSE IF lo = hi THEN argumentChar(st, Char(argsStr, lo))
    ELSE argumentsOver(argsStr, (lo + hi) \div 2 + 1, hi,
                       argumentsOver(argsStr, lo, (lo + hi) \div 2, st))

\* After the loop: what is left in currentArg is the last argument.
lastArgument(st) ==
    IF TrimSpace(st.currentArg) # ""
    THEN Append(st.args, TrimSpace(st.currentArg))
    ELSE st.args

\* parseArguments(argsStr): the arguments between the top-level commas.
parseArguments(argsStr) ==
    IF TrimSpace(argsStr) = "" THEN <<>>
    ELSE lastArgument(
             argumentsOver(argsStr, 1, Len(argsStr),
                           [args |-> <<>>, currentArg |-> "",
                            inQuotes |-> FALSE, quoteChar |-> "",
                            parenDepth |-> 0]))

isNamedArgument(arg) == Contains(arg, "=")

isLegacyNamedArgument(arg) == Contains(arg, ":")

isNestedFunction(arg) == Contains(arg, "(") /\ Contains(arg, ")")

isBuiltinTransform(funcName) ==
    funcName \in {"split_string", "decompress_gzip", "send_stdout",
                  "decode_base64", "lowercase_string", "delete"}

unquoted(value, u) == IF u.err THEN GoString(value) ELSE GoString(u.s)

unquoteValue(value) ==
    IF /\ Len(value) > 1
       /\ \/ Char(value, 1) = "\"" /\ Char(value, Len(value)) = "\""
          \/ Char(value, 1) = "'" /\ Char(value, Len(value)) = "'"
    THEN unquoted(value, Unquote(value))
    ELSE GoString(value)

\* fmt.Sprintf("nested_arg_%d", *nestedArgIndex)
NestedKey(n) == "nested_arg_" \o Itoa(n)

\* settings[nested_arg_N] = value; *nestedArgIndex++
nestedStored(st, value) ==
    [st EXCEPT !.settings = MapPut(@, NestedKey(st.nestedArgIndex),
                                   GoString(value)),
               !.nestedArgIndex = @ + 1]

namedArgument(st, key, value) ==
    IF isNestedFunction(value) THEN nestedStored(st, value)
    ELSE [st EXCEPT !.settings = MapPut(@, key, unquoteValue(value))]

processNamedArgument(arg, st) ==
    namedArgument(st, TrimSpace(Before(arg, Index(arg, "="))),
                  TrimSpace(After(arg, Index(arg, "=") + 1)))

legacyValue(value, num) ==
    IF value = "true" \/ value = "false" THEN GoBool(value = "true")
    ELSE IF num.ok THEN GoInt(num.n)
    ELSE GoString(TrimSet(value, {"\"", "'"}))

legacyArgument(st, key, value) ==
    [st EXCEPT !.settings = MapPut(@, key, legacyValue(value, Atoi(value)))]

processLegacyNamedArgument(arg, st) ==
    legacyArgument(st, TrimSpace(Before(arg, Index(arg, ":"))),
                   TrimSpace(After(arg, Index(arg, ":") + 1)))

processNestedFunction(arg, st) == nestedStored(st, arg)

processBuiltinPositionalArgument(funcName, arg, st) ==
    IF st.positionalIndex = 0
    THEN IF arg = "$" \/ HasPrefix(arg, "$.")
         THEN [st EXCEPT !.settings = MapPut(@, "source", GoString(arg)),
                         !.positionalIndex = @ + 1]
         ELSE IF isNestedFunction(arg)
         THEN [st EXCEPT !.settings = MapPut(@, "nested_arg_0", GoString(arg)),
                         !.positionalIndex = @ + 1]
         ELSE [st EXCEPT !.err = Error(
                  "first positional argument must be a JSON path (starting with $ or $.) or a function call (containing parentheses); got: \""
                  \o arg \o "\"")]
    ELSE [st EXCEPT !.err = Error(
             "only the first positional argument is allowed for built-in transforms; use named arguments for additional parameters (got: \""
             \o arg \o "\")")]

processCustomPositionalArgument(arg, st) ==
    [st EXCEPT !.settings = MapPut(@, "arg" \o Itoa(st.positionalIndex),
                                   unquoteValue(arg)),
               !.positionalIndex = @ + 1]

processPositionalArgument(funcName, arg, st) ==
    IF isBuiltinTransform(funcName)
    THEN processBuiltinPositionalArgument(funcName, arg, st)
    ELSE processCustomPositionalArgument(arg, st)

processArgument(funcName, arg, st) ==
    IF isNamedArgument(arg) THEN processNamedArgument(arg, st)
    ELSE IF isLegacyNamedArgument(arg) THEN processLegacyNamedArgument(arg, st)
    ELSE IF isNestedFunction(arg) THEN processNestedFunction(arg, st)
    ELSE processPositionalArgument(funcName, arg, st)

\* The defaults of setDefaultSettings for a function name.
Defaults(funcName) ==
    CASE funcName = "decompress_gzip"  -> [id |-> GoString("decompress_gzip")]
      [] funcName = "split_string"     ->
            [separator |-> GoString("\n"), id |-> GoString("split_string")]
      [] funcName = "send_stdout"      -> [id |-> GoString("send_stdout")]
      [] funcName = "decode_base64"    ->
            [id |-> GoString("decode_base64"), type |-> GoString("decode_base64")]
      [] funcName = "lowercase_string" -> [id |-> GoString("lowercase_string")]
      [] funcName = "delete"           -> [id |-> GoString("delete")]
      [] OTHER                         -> <<>>

\* A default is set where the settings have no entry for its key.
withDefaults(settings, defaults) ==
    [key \in DOMAIN settings \cup DOMAIN defaults |->
        IF key \in DOMAIN settings THEN settings[key] ELSE defaults[key]]

setDefaultSettings(funcName, st) ==
    IF st.err # NoError THEN st
    ELSE [st EXCEPT !.settings = withDefaults(@, Defaults(funcName))]

\* The loop of buildTransformSettings: it stops at the first error.
RECURSIVE settingsFrom(_, _, _, _)
settingsFrom(funcName, args, n, st) ==
    IF st.err # NoError \/ n > Len(args) THEN st
    ELSE settingsFrom(funcName, args, n + 1,
                      processArgument(funcName, args[n], st))

buildTransformSettings(funcName, args) ==
    setDefaultSettings(funcName,
        settingsFrom(funcName, args, 1,
                     [settings |-> <<>>, nestedArgIndex |-> 0,
                      positionalIndex |-> 0, err |-> NoError]))

\* The keys the nested-call loop acts on.
NestedKeys(settings) ==
    { key \in DOMAIN settings :
        HasPrefix(key, "nested_arg_") /\ settings[key].t = "string" }

\* The settings after the nested-call loop: the nested keys are deleted and
\* the source is the nested output.
afterNested(settings, keys) ==
    IF keys = {} THEN settings
    ELSE MapPut([key \in DOMAIN settings \ keys |-> settings[key]],
                "source", GoString("$.nested_output"))

\* transform := {"id": settings["id"], "type": funcName}, the target when
\* one is given, then every setting but id.
mainTransform(funcName, target, settings) ==
    [key \in {"id", "type"} \cup (IF target # "" THEN {"target"} ELSE {})
                 \cup (DOMAIN settings \ {"id"}) |->
        IF key \in DOMAIN settings \ {"id"} THEN settings[key]
        ELSE IF key = "id"
        THEN (IF "id" \in DOMAIN settings THEN settings["id"] ELSE GoNil)
        ELSE IF key = "type" THEN GoString(funcName)
        ELSE GoString(target)]

RECURSIVE Parse(_)

nestedFailed(nestedFunc, r) ==
    ParseErr("error parsing nested function " \o nestedFunc \o ": "
             \o r.err.text)

\* for key, value := range settings: the nested calls still to be read are
\* those of keys, and any of them can come next.
RECURSIVE nestedOutcomes(_, _, _)
nestedOutcomes(settings, keys, nestedTransforms) ==
    IF keys = {} THEN { ParseOk(nestedTransforms) }
    ELSE UNION { UNION { IF r.err # NoError
                         THEN { nestedFailed(settings[key].s, r) }
                         ELSE nestedOutcomes(settings, keys \ {key},
                                             nestedTransforms \o r.transforms)
                         : r \in Parse(settings[key].s) }
                 : key \in keys }

\* result := append(nestedTransforms, transform)
callResult(funcName, target, settings, keys, nested) ==
    IF nested.err # NoError THEN nested
    ELSE ParseOk(Append(nested.transforms,
                        mainTransform(funcName, target,
                                      afterNested(settings, keys))))

callWithSettings(funcName, target, settings, keys) ==
    { callResult(funcName, target, settings, keys, nested) :
        nested \in nestedOutcomes(settings, keys, <<>>) }

callWithArguments(funcName, target, st) ==
    IF st.err # NoError
    THEN { ParseErr("error parsing settings: " \o st.err.text) }
    ELSE callWithSettings(funcName, target, st.settings,
                          NestedKeys(st.settings))

callBetween(line, target, openParen, closeParen) ==
    IF openParen = -1 \/ closeParen = -1 \/ closeParen <= openParen
    THEN { ParseErr("invalid function call syntax: " \o line) }
    ELSE callWithArguments(
             TrimSpace(Before(line, openParen)), target,
             buildTransformSettings(
                 TrimSpace(Before(line, openParen)),
                 parseArguments(SubSeq(line, openParen + 2, closeParen))))

parseFunctionCallWithTarget(line, target) ==
    callBetween(line, target, Index(line, "("), LastIndex(line, ")"))

parseFunctionCall(line) == parseFunctionCallWithTarget(line, "")

\* transform["target"] = target for the transforms of type delete
deleteTargeted(r, target) ==
    IF r.err # NoError
    THEN ParseErr("error parsing assignment with function: " \o r.err.text)
    ELSE ParseOk([n \in DOMAIN r.transforms |->
                    IF r.transforms[n]["type"] = GoString("delete")
                    THEN MapPut(r.transforms[n], "target", GoString(target))
                    ELSE r.transforms[n]])

assignmentWithFunction(funcCall, target) ==
    { deleteTargeted(r, target) :
        r \in parseFunctionCallWithTarget(funcCall, target) }

parseAssignmentWithFunction(line) ==
    assignmentWithFunction(TrimSpace(After(line, Index(line, "=") + 1)),
                           TrimSpace(Before(line, Index(line, "="))))

parseLine(line) ==
    IF isDirectAssignment(line) THEN { parseDirectAssignment(line) }
    ELSE IF isAssignmentWithFunction(line) THEN parseAssignmentWithFunction(line)
    ELSE IF isFunctionCall(line) THEN parseFunctionCall(line)
    ELSE { ParseErr("invalid SUB line format: " \o line) }

\* The loop of Parse from line n on, transforms being those gathered.
RECURSIVE parseLines(_, _, _)

\* The error is returned with the transforms of the lines before.
parsedLineKeeping(lines, n, transforms, r) ==
    IF r.err # NoError THEN { [transforms |-> transforms, err |-> r.err] }
    ELSE parseLines(lines, n + 1, transforms \o r.transforms)

\* if err != nil { return nil, err }; transforms = append(transforms, ...)
parsedLine(lines, n, transforms, r) ==
    IF r.err # NoError THEN { r }
    ELSE parseLines(lines, n + 1, transforms \o r.transforms)

parseTrimmed(lines, n, transforms, line) ==
    IF line = "" \/ HasPrefix(line, "#")
    THEN parseLines(lines, n + 1, transforms)
    ELSE UNION { parsedLine(lines, n, transforms, r) : r \in parseLine(line) }

parseLines(lines, n, transforms) ==
    IF n > Len(lines) THEN { ParseOk(transforms) }
    ELSE parseTrimmed(lines, n, transforms, TrimSpace(lines[n]))

\* Parser.Parse(sublang)
Parse(sublang) == parseLines(Split(sublang, "\n"), 1, <<>>)

\* SUBParser.functionToTransformType (config/dsl.go): every case of the
\* switch returns the name it was given.
functionToTransformType(funcName) ==
    CASE funcName = "decompress_gzip"  -> "decompress_gzip"
      [] funcName = "split_string"     -> "split_string"
      [] funcName = "send_stdout"      -> "send_stdout"
      [] funcName = "decode_base64"    -> "decode_base64"
      [] funcName = "lowercase_string" -> "lowercase_string"
      [] OTHER                         -> funcName

-----------------------------------------------------------------------------
(* The three machines share one state: each specification below runs one    *)
(* of them and keeps the other two at rest.                                  *)

Call(op, path, value, err) ==
    [op |-> op, path |-> path, value |-> value, err |-> err]

MsgIdle ==
    /\ msg = New
    /\ pre = New
    /\ last = Call("New", "", GoNil, FALSE)
    /\ nops = 0

ApplyIdle ==
    /\ tf = <<>>
    /\ heap = <<>>
    /\ msgs = <<>>
    /\ resultMsgs = <<>>
    /\ nextResultMsgs = <<>>
    /\ stage = 0
    /\ rec = 0
    /\ pc = "idle"
    /\ ret = [msgs |-> <<>>, err |-> NoError]
    /\ calls = <<>>
    /\ stdout = <<>>

ParseIdle ==
    /\ script = ""
    /\ parsed = <<>>

GoIdle ==
    /\ go = <<>>
    /\ mu = <<>>
    /\ owner = <<>>
    /\ alone = <<>>
    /\ accesses = {}

-----------------------------------------------------------------------------
(* A message under a bounded sequence of calls *)

\* How many calls are made on the message.
MaxOps == 2

DocTree ==
    GoMap([name |-> GoString("test"),
           a    |-> GoMap([b |-> GoMap([c |-> GoString("value")])]),
           arr  |-> GoSlice(<<GoString("p"), GoString("q")>>)])

\* An object whose key "$" holds an object with an array.
RootKeyTree ==
    GoMap([k \in {"$"} |->
             GoMap([arr |-> GoSlice(<<GoString("p"), GoString("q")>>)])])

\* The buffers given to SetData: a JSON object, an object with an empty
\* child, a JSON array, text that is not JSON, and an object with the
\* key "$".
DataInputs ==
    { Json(DocTree),
      Json(GoMap([a |-> EmptyMap])),
      Json(GoSlice(<<GoString("p")>>)),
      Text("HELLO WORLD"),
      Json(RootKeyTree) }

MetaInputs ==
    { Json(GoMap([source |-> GoString("file")])),
      Json(GoMap([meta |-> GoString("data")])) }

\* Among them paths into the array arr: an element, an index past its
\* end, and a segment that is no number; a path below a missing key, and
\* a path below value.
ValidPathInputs ==
    { "$", "meta.$", "$.a.b.c", "$.value", "$.arr.1", "meta.$.source",
      "$.arr.3", "$.arr.x", "$.zz.k", "$.value.k" }

\* Valid once the surrounding white space is trimmed.
PaddedPathInputs == { " $.value " }

\* The paths of TestMessageInvalidJSONPath.
InvalidPathInputs == { "foo", "bar.baz", "meta foo", "", "$foo", "meta$foo" }

PathInputs == ValidPathInputs \cup PaddedPathInputs \cup InvalidPathInputs

ValueInputs ==
    { GoString("v"), GoInt(42), GoBool(TRUE), GoNil,
      GoSlice(<<GoString("e")>>), GoMap([k |-> GoString("v")]) }

MsgInit ==
    /\ MsgIdle
    /\ ApplyIdle
    /\ ParseIdle
    /\ GoIdle

DoSetData ==
    /\ nops < MaxOps
    /\ \E d \in DataInputs :
          /\ msg' = SetData(msg, d)
          /\ last' = Call("SetData", "", GoNil, FALSE)
    /\ pre' = msg
    /\ nops' = nops + 1
    /\ UNCHANGED <<applyVars, parseVars, goVars>>

DoSetMetadata ==
    /\ nops < MaxOps
    /\ \E d \in MetaInputs :
          /\ msg' = SetMetadata(msg, d)
          /\ last' = Call("SetMetadata", "", GoNil, FALSE)
    /\ pre' = msg
    /\ nops' = nops + 1
    /\ UNCHANGED <<applyVars, parseVars, goVars>>

DoAsControl ==
    /\ nops < MaxOps
    /\ msg' = AsControl(msg)
    /\ last' = Call("AsControl", "", GoNil, FALSE)
    /\ pre' = msg
    /\ nops' = nops + 1
    /\ UNCHANGED <<applyVars, parseVars, goVars>>

DoSetValue ==
    /\ nops < MaxOps
    /\ \E p \in PathInputs, v \in ValueInputs :
          LET r == SetValue(msg, p, v) IN
          /\ msg' = r.m
          /\ last' = Call("SetValue", p, v, r.err)
    /\ pre' = msg
    /\ nops' = nops + 1
    /\ UNCHANGED <<applyVars, parseVars, goVars>>

DoDeleteValue ==
    /\ nops < MaxOps
    /\ \E p \in PathInputs :
          LET r == DeleteValue(msg, p) IN
          /\ msg' = r.m
          /\ last' = Call("DeleteValue", p, GoNil, r.err)
    /\ pre' = msg
    /\ nops' = nops + 1
    /\ UNCHANGED <<applyVars, parseVars, goVars>>

MsgNext ==
    \/ DoSetData
    \/ DoSetMetadata
    \/ DoAsControl
    \/ DoSetValue
    \/ DoDeleteValue

SpecMessage == MsgInit /\ [][MsgNext]_vars

-----------------------------------------------------------------------------
(* transform.Apply, one loop step at a time.  stage is Apply's i, rec the   *)
(* position of the range loop in resultMsgs; calls is the history of the    *)
(* Transform invocations and stdout what was printed.                       *)

\* The longest transform list and the largest input batch.
MaxStages == 2
MaxBatch == 2

SeqsUpTo(S, n) == UNION { [1..len -> S] : len \in 0..n }

TransformInputs ==
    { [type |-> "split_string", separator |-> "\n"],
      [type |-> "lowercase_string"],
      [type |-> "decode_base64"],
      [type |-> "decompress_gzip"],
      [type |-> "send_stdout"],
      [type |-> "direct_assign", source |-> "$.a", target |-> "$.b"],
      [type |-> "direct_assign", source |-> "$", target |-> "$.copy"] }

\* Messages of a batch: text lines, base64 text ("hi\nyo"), a gzip stream,
\* a JSON object, no payload, a control message, and a control message on
\* which SetValue was called.
MessageInputs ==
    { SetData(New, Text("HELLO\nWorld")),
      SetData(New, Text("aGkKeW8=")),
      SetData(New, Gzip(Text("A\nb"))),
      SetData(New, Json(GoMap([a |-> GoString("X")]))),
      New,
      AsControl(New),
      SetValue(AsControl(New), "$.a", GoString("X")).m }

ApplyInit ==
    /\ tf \in SeqsUpTo(TransformInputs, MaxStages)
    /\ heap \in SeqsUpTo(MessageInputs, MaxBatch)
    /\ msgs = [n \in DOMAIN heap |-> n]
    /\ resultMsgs = msgs
    /\ nextResultMsgs = <<>>
    /\ stage = 0
    /\ rec = 0
    /\ pc = "for"
    /\ ret = [msgs |-> <<>>, err |-> NoError]
    /\ calls = <<>>
    /\ stdout = <<>>
    /\ MsgIdle
    /\ ParseIdle
    /\ GoIdle

\* for i := 0; len(resultMsgs) > 0 && i < len(tf); i++
LoopCondition == Len(resultMsgs) > 0 /\ stage < Len(tf)

\* The loop condition holds: var nextResultMsgs, and the range loop starts.
ApplyStage ==
    /\ pc = "for"
    /\ LoopCondition
    /\ nextResultMsgs' = <<>>
    /\ rec' = 1
    /\ pc' = "range"
    /\ UNCHANGED <<tf, heap, msgs, resultMsgs, stage, ret, calls, stdout>>
    /\ UNCHANGED <<msgVars, parseVars, goVars>>

Invocation(m, r) ==
    [stage |-> stage, m |-> m, before |-> heap[m], after |-> r.heap[m],
     out |-> r.out, err |-> r.err, touched |-> r.touched]

\* The failing record is skipped and the loop goes on.
skipFailed(r) ==
    /\ rec' = rec + 1
    /\ UNCHANGED <<nextResultMsgs, pc, ret>>

\* if err != nil { return nil, err }
returnError(r) ==
    /\ pc' = "done"
    /\ ret' = [msgs |-> <<>>, err |-> r.err]
    /\ UNCHANGED <<nextResultMsgs, rec>>

\* The records are put in front of those already collected.
prepended(next, rMsgs) == rMsgs \o next

\* append(nextResultMsgs, rMsgs...)
appended(next, rMsgs) == next \o rMsgs

\* The body of the range loop, given what Transform did.
invoked(m, r) ==
    /\ heap' = r.heap
    /\ calls' = Append(calls, Invocation(m, r))
    /\ stdout' = stdout \o r.printed
    /\ IF r.err # NoError
       THEN returnError(r)
       ELSE /\ nextResultMsgs' = appended(nextResultMsgs, r.out)
            /\ rec' = rec + 1
            /\ UNCHANGED <<pc, ret>>

\* rMsgs, err := tf[i].Transform(ctx, m) for the next m of the range.
ApplyTransform ==
    /\ pc = "range"
    /\ rec <= Len(resultMsgs)
    /\ invoked(resultMsgs[rec], Transform(tf[stage + 1], heap, resultMsgs[rec]))
    /\ UNCHANGED <<tf, msgs, resultMsgs, stage>>
    /\ UNCHANGED <<msgVars, parseVars, goVars>>

\* The range is exhausted: resultMsgs = nextResultMsgs, i++.
ApplyNextStage ==
    /\ pc = "range"
    /\ rec > Len(resultMsgs)
    /\ resultMsgs' = nextResultMsgs
    /\ stage' = stage + 1
    /\ pc' = "for"
    /\ UNCHANGED <<tf, heap, msgs, nextResultMsgs, rec, ret, calls, stdout>>
    /\ UNCHANGED <<msgVars, parseVars, goVars>>

\* The loop condition fails: return resultMsgs, nil.
ApplyReturn ==
    /\ pc = "for"
    /\ ~LoopCondition
    /\ ret' = [msgs |-> resultMsgs, err |-> NoError]
    /\ pc' = "done"
    /\ UNCHANGED <<tf, heap, msgs, resultMsgs, nextResultMsgs, stage, rec,
                   calls, stdout>>
    /\ UNCHANGED <<msgVars, parseVars, goVars>>

ApplyNext ==
    \/ ApplyStage
    \/ ApplyTransform
    \/ ApplyNextStage
    \/ ApplyReturn

SpecApply == ApplyInit /\ [][ApplyNext]_vars

-----------------------------------------------------------------------------
(* Parser.Parse called again and again on one script *)

\* The most lines of a script, and how often the script is parsed.
MaxLines == 2
MaxParses == 2

\* Lines of every form parseLine tells apart: direct assignments, calls
\* with and without a target, named, legacy and positional arguments, one
\* and two nested calls, a comment, a blank line and lines with errors
\* (the last of them in a nested call).
LineInputs ==
    { "$.b = $.a",
      "lowercase_string($.a)",
      "$.out = lowercase_string($.a)",
      "$.x = delete($.a)",
      "split_string($.a, separator=\",\")",
      "send_stdout()",
      "custom(1, limit:5, flag:true, name:'x')",
      "lowercase_string(decode_base64($.a))",
      "concat(lowercase_string($.a), decode_base64($.b))",
      "split_string(decode_base64($.a), lowercase_string($.b))",
      "# comment",
      "",
      "bogus line",
      "lowercase_string(foo)",
      "custom(lowercase_string(foo))" }

JoinLines(ls) ==
    IF ls = <<>> THEN ""
    ELSE IF Len(ls) = 1 THEN ls[1]
    ELSE IF Len(ls) = 2 THEN ls[1] \o "\n" \o ls[2]
    ELSE ls[1] \o "\n" \o ls[2] \o "\n" \o ls[3]

\* The text of a call: name(args).
CallLine(name, args) == name \o "(" \o args \o ")"

\* A call around one nested call on a path.
NestedCases ==
    { [outer |-> o, inner |-> i, x |-> x] :
        o \in {"lowercase_string", "custom"},
        i \in {"decode_base64", "other"},
        x \in {"$.a"} }

NestedLine(c) == CallLine(c.outer, CallLine(c.inner, c.x))

\* The builtin kinds of isBuiltinTransform.
BuiltinKinds ==
    { "split_string", "decompress_gzip", "send_stdout", "decode_base64",
      "lowercase_string", "delete" }

\* Two positional arguments, each a payload path or a nested call.
TwoPositionalInputs ==
    { "$.a, $.b",
      "$.a, decode_base64($.b)",
      "decode_base64($.a), $.b",
      "decode_base64($.a), lowercase_string($.b)" }

\* One positional argument that is neither a payload path nor a nested call.
OtherPositionalInputs == { "foo", "meta.$.a" }

BuiltinCases ==
    { [kind |-> k, args |-> a] :
        k \in BuiltinKinds,
        a \in TwoPositionalInputs \cup OtherPositionalInputs }

BuiltinLine(c) == CallLine(c.kind, c.args)

\* Assignments of a call: T = f(args), with and without a named argument
\* target=U in args.
TargetedCases ==
    { [target |-> "$.out", eq |-> e, func |-> f, args |-> a] :
        e \in {" = ", "="},
        f \in {"lowercase_string", "custom", "delete"},
        a \in {"$.a", "$.a, target=$.other", "target=$.other"} }

TargetedLine(c) == c.target \o c.eq \o CallLine(c.func, c.args)

\* Direct assignments: a target and a source around the first "=", both
\* without white space at their ends and the target without "=", each
\* side padded with pad.  Either side may be empty.
DirectCases ==
    { [target |-> t, source |-> x, pad |-> p] :
        t \in {"$.b", "meta.$.k", "foo", ""},
        x \in {"$.a", "plain text", "$.a=1", ""},
        p \in {"", "  "} }

DirectLine(c) ==
    c.pad \o c.target \o c.pad \o "=" \o c.pad \o c.source \o c.pad

\* Function names and the kind each is to compile to: the aliases of a
\* kind, and a name that is no alias.
AliasCases ==
    { [name |-> "split",           kind |-> "string_split"],
      [name |-> "string_split",    kind |-> "string_split"],
      [name |-> "gzip_decompress", kind |-> "format_from_gzip"],
      [name |-> "decompress_gzip", kind |-> "format_from_gzip"],
      [name |-> "print",           kind |-> "send_stdout"],
      [name |-> "stdout",          kind |-> "send_stdout"],
      [name |-> "my_func",         kind |-> "my_func"] }

AliasLine(c) == CallLine(c.name, "")

\* Lines with unbalanced parentheses, with a quote left open in the
\* arguments, with text after the last ")", and with neither "=" nor "(".
UnbalancedLines == { "f((a)", "split(\"x\"", "f(a))" }

OpenQuoteLines == { "f(\"abc)", "f('a, b)" }

TrailingTextLines == { "f(a) xyz", "lowercase_string($.a) $.b" }

NoCallLines == { "invalid_function", "$.a" }

MalformedLines ==
    UnbalancedLines \cup OpenQuoteLines \cup TrailingTextLines \cup NoCallLines

\* Argument texts for the tokenizer: plain arguments, commas in double and
\* in single quotes, commas in nested calls of depth one and two, a
\* parenthesis in quotes, the other quote character in quotes, a quote
\* inside a nested call, padded and empty arguments.
ArgumentInputs ==
    { "a, b",
      "\"x,y\", b",
      "'p,q', \"r\"",
      "g(a, b), c",
      "g(h(a, b), c), d",
      "g(a, b), \"x,y\", c",
      "\"(\", b",
      "\")\", b",
      "'a\"b,c', d",
      "g(\"a)b\"), c",
      "  a  ,b  ",
      "a,,b",
      "a, ,b," }

ArgumentLine(a) == CallLine("custom", a)

\* Calls with nested calls in depth and in width, each with the kinds of
\* its calls in the order of evaluation: the nested calls of an argument
\* before the call, the arguments from left to right.
FlatCases ==
    { [line  |-> CallLine("a", CallLine("b", CallLine("c", "$.x"))),
       kinds |-> <<"c", "b", "a">>],
      [line  |-> CallLine("f", CallLine("g", "$.a") \o ", "
                                   \o CallLine("h", "$.b")),
       kinds |-> <<"g", "h", "f">>],
      [line  |-> CallLine("f", CallLine("g", "$.a") \o ", "
                                   \o CallLine("h", "$.b") \o ", "
                                   \o CallLine("k", "$.c")),
       kinds |-> <<"g", "h", "k", "f">>],
      [line  |-> CallLine("f", CallLine("g", CallLine("k", "$.a")) \o ", "
                                   \o CallLine("h", "$.b")),
       kinds |-> <<"k", "g", "h", "f">>],
      [line  |-> CallLine("lowercase_string",
                          CallLine("decode_base64",
                                   CallLine("decompress_gzip", "$.x"))),
       kinds |-> <<"decompress_gzip", "decode_base64", "lowercase_string">>] }

\* Calls of names that are no builtin, each with its positional arguments
\* as written without their quotes: none, plain and quoted ones, positional
\* arguments among legacy named, named and nested ones, and arguments in
\* single quotes.
CustomCases ==
    { [name |-> "custom_function", args |-> "",
       positional |-> <<>>],
      [name |-> "custom_function", args |-> "1, \"two\", $.a",
       positional |-> <<"1", "two", "$.a">>],
      [name |-> "custom_function",
       args |-> "\"arg1\", \"arg2\", key: \"value\", number: 42",
       positional |-> <<"arg1", "arg2">>],
      [name |-> "Other", args |-> "a, k=v, b, g($.x), c",
       positional |-> <<"a", "b", "c">>],
      [name |-> "Other", args |-> "'x', \"y z\"",
       positional |-> <<"x", "y z">>],
      [name |-> "Other", args |-> "'three', b",
       positional |-> <<"three", "b">>] }

CustomLine(c) == CallLine(c.name, c.args)

\* Calls f(args) whose arguments name a setting: the setting type, as a
\* named and as a legacy named argument, alone and after a path, and
\* another setting.
KindCases ==
    { [func |-> f, args |-> a] :
        f \in {"lowercase_string", "custom"},
        a \in {"type=g", "$.a, type=g", "type: g", "id=g", "$.a"} }

KindLine(c) == CallLine(c.func, c.args)

\* Scripts of one line each, by the form of the line.
SingleLineInputs ==
    { NestedLine(c) : c \in NestedCases }
        \cup { BuiltinLine(c) : c \in BuiltinCases }
        \cup { TargetedLine(c) : c \in TargetedCases }
        \cup { DirectLine(c) : c \in DirectCases }
        \cup { AliasLine(c) : c \in AliasCases }
        \cup MalformedLines
        \cup { KindLine(c) : c \in KindCases }
        \cup { CustomLine(c) : c \in CustomCases }
        \cup { c.line : c \in FlatCases }
        \cup { ArgumentLine(a) : a \in ArgumentInputs }

\* The scripts parsed: every script of up to MaxLines lines of LineInputs,
\* and the scripts of one line.
ScriptInputs ==
    { JoinLines(ls) : ls \in SeqsUpTo(LineInputs, MaxLines) }
        \cup SingleLineInputs

ParseInit ==
    /\ script \in ScriptInputs
    /\ parsed = <<>>
    /\ MsgIdle
    /\ ApplyIdle
    /\ GoIdle

\* transforms, err := p.Parse(script)
DoParse ==
    /\ Len(parsed) < MaxParses
    /\ \E r \in Parse(script) : parsed' = Append(parsed, r)
    /\ UNCHANGED <<script, msgVars, applyVars, goVars>>

ParseNext == DoParse

SpecParse == ParseInit /\ [][ParseNext]_vars

-----------------------------------------------------------------------------
(* The command (cmd/main.go): a SUB script is loaded into a configuration,  *)
(* the transforms of the configuration are made by the factory              *)
(* (vibestation.New, transform.New), and the list is applied to one message *)
(* that holds the input.  The run leaves its result, or the error that      *)
(* stopped it, in ret.                                                      *)
(*                                                                          *)
(* The transforms made here have neither a source nor a target path among   *)
(* the inputs, and the separators of the inputs are bytes that the JSON     *)
(* payload does not hold.                                                   *)

\* config.Config{Type: transformType, Settings: settings}: every entry of
\* the descriptor but type and id, and the id where it is a string.
ConfigOf(tmap) ==
    LET kept == { k \in DOMAIN tmap : k # "type" /\ k # "id" }
        ids  == IF "id" \in DOMAIN tmap /\ tmap["id"].t = "string"
                THEN {"id"} ELSE {}
    IN  [Type |-> tmap["type"].s,
         Settings |-> [k \in kept \cup ids |-> tmap[k]]]

\* transformType, ok := tmap["type"].(string) gives !ok
typeMissing(tmap) == "type" \notin DOMAIN tmap \/ tmap["type"].t # "string"

\* loadSUBConfig from the result r of parser.Parse on: the transforms stay
\* nil when the parser gave no descriptor.
loadSUBConfig(r) ==
    IF r.err # NoError
    THEN [Transforms |-> <<>>,
          err |-> Error("failed to parse SUB config: " \o r.err.text)]
    ELSE IF \E n \in DOMAIN r.transforms : typeMissing(r.transforms[n])
    THEN [Transforms |-> <<>>, err |-> Error("transform missing type field")]
    ELSE [Transforms |-> [n \in DOMAIN r.transforms |-> ConfigOf(r.transforms[n])],
          err |-> NoError]

\* The JSON kind that json.Unmarshal names in a type error.
JSONKind(v) ==
    CASE v.t = "bool"  -> "bool"
      [] v.t = "map"   -> "object"
      [] v.t = "slice" -> "array"
      [] OTHER         -> "number"

\* conf.Decode(cfg.Settings) into a struct whose fields, all strings, have
\* the JSON names in fields: a value that is neither a string nor null in
\* one of them is an error, and the first such field in key order is named.
Decode(settings, fields, struct) ==
    LET bad == { k \in fields \cap DOMAIN settings :
                    settings[k].t \notin {"string", "nil"} }
        key == IF "id" \in bad THEN "id" ELSE CHOOSE k \in bad : TRUE
    IN  IF bad = {} THEN NoError
        ELSE Error("json: cannot unmarshal " \o JSONKind(settings[key])
                   \o " into Go struct field " \o struct \o "." \o key
                   \o " of type string")

\* if v, ok := cfg.Settings[key]; ok { if s, ok := v.(string); ok { ... } }
settingString(settings, key, default) ==
    IF key \in DOMAIN settings /\ settings[key].t = "string"
    THEN settings[key].s ELSE default

\* The same with the test s != "".
settingID(settings, default) ==
    IF settingString(settings, "id", "") # "" THEN settingString(settings, "id", "")
    ELSE default

\* return &tf, nil and return nil, err of the constructors
Built(t) == [tf |-> t, err |-> NoError]
NotBuilt(text) == [tf |-> [type |-> "nil"], err |-> Error(text)]

\* The constructors of the transforms that have only an id.
newWithID(type, struct, cfg) ==
    LET err == Decode(cfg.Settings, {"id"}, struct)
    IN  IF err # NoError
        THEN NotBuilt("transform " \o type \o ": " \o err.text)
        ELSE Built([type |-> type,
                    id |-> settingID(cfg.Settings, type),
                    sourcePath |-> settingString(cfg.Settings, "source", ""),
                    targetPath |-> settingString(cfg.Settings, "target", "")])

newLowercaseString(cfg) == newWithID("lowercase_string", "LowercaseStringConfig", cfg)

newDecodeBase64(cfg) == newWithID("decode_base64", "DecodeBase64Config", cfg)

newDecompressGzip(cfg) == newWithID("decompress_gzip", "DecompressGzipConfig", cfg)

\* newSendStdout keeps the id alone.
newSendStdout(cfg) ==
    LET err == Decode(cfg.Settings, {"id"}, "sendStdoutConfig")
    IN  IF err # NoError THEN NotBuilt("transform send_stdout: " \o err.text)
        ELSE Built([type |-> "send_stdout",
                    id |-> settingID(cfg.Settings, "send_stdout")])

\* newSplitString: conf.Validate() wants a separator in the settings.
newSplitString(cfg) ==
    LET err == Decode(cfg.Settings, {"id", "separator"}, "SplitStringConfig")
        id  == settingID(cfg.Settings, "split_string")
    IN  IF err # NoError THEN NotBuilt("transform split_string: " \o err.text)
        ELSE IF settingString(cfg.Settings, "separator", "") = ""
        THEN NotBuilt("transform " \o id \o ": separator: missing required option")
        ELSE Built([type |-> "split_string",
                    id |-> id,
                    separator |-> settingString(cfg.Settings, "separator", "\n"),
                    sourcePath |-> settingString(cfg.Settings, "source", ""),
                    targetPath |-> settingString(cfg.Settings, "target", "")])

\* transform.New, the factory
NewTransformer(cfg) ==
    CASE cfg.Type = "decompress_gzip"  -> newDecompressGzip(cfg)
      [] cfg.Type = "split_string"     -> newSplitString(cfg)
      [] cfg.Type = "send_stdout"      -> newSendStdout(cfg)
      [] cfg.Type = "decode_base64"    -> newDecodeBase64(cfg)
      [] cfg.Type = "lowercase_string" -> newLowercaseString(cfg)
      [] OTHER ->
            NotBuilt("transform " \o cfg.Type \o ": unsupported transform type")

\* vibestation.New: the first transform the factory refuses ends it.
NewVibestation(cfg) ==
    LET made   == [n \in DOMAIN cfg.Transforms |-> NewTransformer(cfg.Transforms[n])]
        failed == { n \in DOMAIN made : made[n].err # NoError }
    IN  IF cfg.Transforms = <<>>
        THEN [tforms |-> <<>>, err |-> Error("no transforms configured")]
        ELSE IF failed # {}
        THEN [tforms |-> <<>>,
              err |-> made[CHOOSE n \in failed : \A k \in failed : n <= k].err]
        ELSE [tforms |-> [n \in DOMAIN made |-> made[n].tf], err |-> NoError]

\* The scripts of the runs: pipelines of the transforms the factory makes,
\* a script of custom calls, a direct assignment, and scripts that stop the
\* run before a transform is made.
RunScripts ==
    { "split($.data, separator=\"|\")\nprint()",
      "split_string(separator=\",\")\nsend_stdout()",
      "split_string()\nlowercase_string()",
      "decode_base64()\nsplit_string()\nsend_stdout()",
      "decompress_gzip(id=\"unzip\")",
      "lowercase_string()",
      "send_stdout()\ndecode_base64()",
      "split_string(separator=\"\")",
      "lowercase_string(id: 7)",
      "$.b = $.a",
      "lowercase_string(",
      "" }

\* What the input file holds.
RunPayloads ==
    { Json(GoMap([data |-> GoString("a|b|c")])),
      Text("A,b\nC"),
      Text("aGkKeW8="),
      Gzip(Text("A\nb")),
      NoBytes }

\* msg := message.New().SetData(data), before the configuration is loaded.
RunInit ==
    /\ script \in RunScripts
    /\ parsed = <<>>
    /\ tf = <<>>
    /\ heap \in { <<SetData(New, data)>> : data \in RunPayloads }
    /\ msgs = <<1>>
    /\ resultMsgs = <<>>
    /\ nextResultMsgs = <<>>
    /\ stage = 0
    /\ rec = 0
    /\ pc = "load"
    /\ ret = [msgs |-> <<>>, err |-> NoError]
    /\ calls = <<>>
    /\ stdout = <<>>
    /\ MsgIdle
    /\ GoIdle

\* log.Fatalf on an error of a step
RunFatal(err) ==
    /\ pc' = "done"
    /\ ret' = [msgs |-> <<>>, err |-> err]

\* cfg, err := loadConfigFromFile(*configFile) on a SUB file
RunLoad ==
    /\ pc = "load"
    /\ \E r \in Parse(script) :
          /\ parsed' = <<r>>
          /\ IF loadSUBConfig(r).err # NoError
             THEN RunFatal(loadSUBConfig(r).err)
             ELSE pc' = "new" /\ UNCHANGED ret
    /\ UNCHANGED <<tf, heap, msgs, resultMsgs, nextResultMsgs, stage, rec,
                   calls, stdout>>
    /\ UNCHANGED <<msgVars, script, goVars>>

\* vibe, err := vibestation.New(ctx, cfg)
RunNew ==
    /\ pc = "new"
    /\ LET vibe == NewVibestation(loadSUBConfig(parsed[1]))
       IN  IF vibe.err # NoError
           THEN RunFatal(vibe.err) /\ UNCHANGED tf
           ELSE tf' = vibe.tforms /\ pc' = "transform" /\ UNCHANGED ret
    /\ UNCHANGED <<heap, msgs, resultMsgs, nextResultMsgs, stage, rec, calls,
                   stdout>>
    /\ UNCHANGED <<msgVars, parseVars, goVars>>

\* results, err := vibe.Transform(ctx, msg): transform.Apply is entered
\* with resultMsgs := msgs.
RunTransform ==
    /\ pc = "transform"
    /\ resultMsgs' = msgs
    /\ pc' = "for"
    /\ UNCHANGED <<tf, heap, msgs, nextResultMsgs, stage, rec, ret, calls,
                   stdout>>
    /\ UNCHANGED <<msgVars, parseVars, goVars>>

RunNext ==
    \/ RunLoad
    \/ RunNew
    \/ RunTransform
    \/ ApplyStage
    \/ ApplyTransform
    \/ ApplyNextStage
    \/ ApplyReturn

SpecRun == RunInit /\ [][RunNext]_vars

-----------------------------------------------------------------------------
(* Callers of Vibestation.Transform that run at the same time               *)
(*                                                                          *)
(* Every caller is a goroutine that runs transform.Apply on the one list    *)
(* v.tforms with a batch of its own.  What the callers share is the memory  *)
(* that holds the messages (heap), the transforms (tf), the mutex of every  *)
(* sendStdout (mu, 0 when it is unlocked, else the caller that holds it)    *)
(* and the console (stdout).  go[c] holds the locals of caller c: those of  *)
(* Apply, and arg, what the transform it is in has read from its message.   *)
(* A step of a caller is one access to the shared memory, so that the       *)
(* reads and the writes of different callers interleave.                    *)
(*                                                                          *)
(* owner, alone and accesses are not state of the program: owner[k] is the   *)
(* caller whose batch the message in heap[k] belongs to (the messages a      *)
(* transform makes for a caller belong to that caller), alone[c] is what    *)
(* caller c gets from Apply when no other caller runs, and accesses is the  *)
(* set of the accesses made so far.                                         *)

\* The range loop of Apply for one transform, by one caller alone.
RECURSIVE rangeAlone(_, _, _, _, _)
rangeAlone(t, h, resultOf, n, next) ==
    IF n > Len(resultOf) THEN [heap |-> h, out |-> next, err |-> NoError]
    ELSE LET r == Transform(t, h, resultOf[n])
         IN  IF r.err # NoError
             THEN [heap |-> r.heap, out |-> <<>>, err |-> r.err]
             ELSE rangeAlone(t, r.heap, resultOf, n + 1, appended(next, r.out))

\* The records returned, as the messages they point to, and the error.
Result(h, out, err) ==
    [records |-> [n \in DOMAIN out |-> h[out[n]]], err |-> err]

\* The outer loop of Apply from pass i on, by one caller alone.
RECURSIVE applyAlone(_, _, _, _)
applyAlone(tfs, i, h, resultOf) ==
    IF Len(resultOf) > 0 /\ i < Len(tfs)
    THEN LET s == rangeAlone(tfs[i + 1], h, resultOf, 1, <<>>)
         IN  IF s.err # NoError THEN Result(s.heap, <<>>, s.err)
             ELSE applyAlone(tfs, i + 1, s.heap, s.out)
    ELSE Result(h, resultOf, NoError)

\* v.Transform(ctx, msg...) when nothing else runs
TransformAlone(tfs, h, batch) == applyAlone(tfs, 0, h, batch)

\* The locals of Apply after resultMsgs is copied from msgs.
Locals(batch) ==
    [msgs |-> batch, resultMsgs |-> batch, nextResultMsgs |-> <<>>,
     stage |-> 0, rec |-> 0, pc |-> "for", arg |-> New,
     ret |-> [msgs |-> <<>>, err |-> NoError]]

RECURSIVE Joined(_)
Joined(batches) ==
    IF batches = <<>> THEN <<>>
    ELSE Joined(SubSeq(batches, 1, Len(batches) - 1)) \o batches[Len(batches)]

\* Where the messages of batch c are in the memory.
BatchCells(batches, c) ==
    [n \in DOMAIN batches[c] |-> Len(Joined(SubSeq(batches, 1, c - 1))) + n]

RECURSIVE Owners(_)
Owners(batches) ==
    IF batches = <<>> THEN <<>>
    ELSE Owners(SubSeq(batches, 1, Len(batches) - 1))
            \o [n \in DOMAIN batches[Len(batches)] |-> Len(batches)]

\* The lists of transforms the callers share.
GoTransformInputs ==
    { <<[type |-> "send_stdout"]>>,
      <<[type |-> "lowercase_string"]>>,
      <<[type |-> "split_string", separator |-> "\n"], [type |-> "send_stdout"]>>,
      <<[type |-> "lowercase_string"], [type |-> "send_stdout"]>>,
      <<[type |-> "decode_base64"], [type |-> "split_string", separator |-> "\n"]>>,
      <<[type |-> "decode_base64"], [type |-> "send_stdout"]>>,
      <<[type |-> "send_stdout"], [type |-> "send_stdout"]>> }

\* The batches of the callers, one batch for each caller: two or three
\* callers, batches of one or two messages, control messages, messages
\* with equal payloads in different batches, and a message that
\* decode_base64 fails on.
GoBatchInputs ==
    { << <<SetData(New, Text("X\nY"))>>, <<SetData(New, Text("1\n2"))>> >>,
      << <<SetData(New, Text("X")), AsControl(New)>>,
         <<SetData(New, Text("1"))>> >>,
      << <<SetData(New, Text("aGkKeW8="))>>,
         <<SetData(New, Text("HELLO\nWorld")), SetData(New, Text("1"))>> >>,
      << <<AsControl(New)>>, <<AsControl(New)>> >>,
      << <<SetData(New, Text("X"))>>, <<SetData(New, Text("X"))>> >>,
      << <<SetData(New, Text("X"))>>, <<SetData(New, Text("1"))>>,
         <<SetData(New, Text("aGk="))>> >> }

\* The callers start on one of the lists of transforms in lists.
GoInitWith(lists) ==
    /\ tf \in lists
    /\ \E batches \in GoBatchInputs :
          /\ heap = Joined(batches)
          /\ owner = Owners(batches)
          /\ go = [c \in DOMAIN batches |-> Locals(BatchCells(batches, c))]
          /\ alone = [c \in DOMAIN batches |->
                         TransformAlone(tf, heap, BatchCells(batches, c))]
    /\ mu = [i \in DOMAIN tf |-> 0]
    /\ accesses = {}
    /\ msgs = <<>>
    /\ resultMsgs = <<>>
    /\ nextResultMsgs = <<>>
    /\ stage = 0
    /\ rec = 0
    /\ pc = "idle"
    /\ ret = [msgs |-> <<>>, err |-> NoError]
    /\ calls = <<>>
    /\ stdout = <<>>
    /\ MsgIdle
    /\ ParseIdle

GoInit == GoInitWith(GoTransformInputs)

\* tf[i] and m of the invocation caller c is at.
CurrentTransform(c) == tf[go[c].stage + 1]

CurrentMessage(c) == go[c].resultMsgs[go[c].rec]

\* An access of caller c to the message in heap[k]; held tells whether c
\* holds the mutex of the transform it is in.
Access(op, c, k) ==
    [op |-> op, caller |-> c, cell |-> k,
     held |-> mu[go[c].stage + 1] = c]

\* for i := 0; len(resultMsgs) > 0 && i < len(tf); i++ { var nextResultMsgs
GoStage(c) ==
    /\ go[c].pc = "for"
    /\ Len(go[c].resultMsgs) > 0 /\ go[c].stage < Len(tf)
    /\ go' = [go EXCEPT ![c].nextResultMsgs = <<>>, ![c].rec = 1,
                        ![c].pc = "range"]
    /\ UNCHANGED <<mu, owner, alone, accesses>>
    /\ UNCHANGED <<msgVars, applyVars, parseVars>>

\* tf[i].Transform(ctx, m) of a transform other than sendStdout is entered
\* and reads m.
GoRead(c) ==
    /\ go[c].pc = "range"
    /\ go[c].rec <= Len(go[c].resultMsgs)
    /\ CurrentTransform(c).type # "send_stdout"
    /\ go' = [go EXCEPT ![c].arg = heap[CurrentMessage(c)], ![c].pc = "write"]
    /\ accesses' = accesses \cup {Access("read", c, CurrentMessage(c))}
    /\ UNCHANGED <<mu, owner, alone>>
    /\ UNCHANGED <<msgVars, applyVars, parseVars>>

\* The loop body with a nextResultMsgs that all callers append to.
returnedShared(c, out, err) ==
    IF err # NoError
    THEN [go EXCEPT ![c].pc = "done", ![c].arg = New,
                    ![c].ret = [msgs |-> <<>>, err |-> err]]
    ELSE [d \in DOMAIN go |->
            IF d = c
            THEN [go[d] EXCEPT !.nextResultMsgs = appended(@, out),
                               !.rec = @ + 1, !.arg = New, !.pc = "range"]
            ELSE [go[d] EXCEPT !.nextResultMsgs = appended(@, out)]]

\* The rest of the loop body in Apply, given what Transform returned.
returned(c, out, err) ==
    IF err # NoError
    THEN [go EXCEPT ![c].pc = "done", ![c].arg = New,
                    ![c].ret = [msgs |-> <<>>, err |-> err]]
    ELSE [go EXCEPT ![c].nextResultMsgs = appended(@, out),
                    ![c].rec = @ + 1, ![c].arg = New, ![c].pc = "range"]

\* The memory cells that differ between h and the memory after, the new
\* ones among them.
Written(h, after) ==
    { k \in DOMAIN after : k \notin DOMAIN h \/ after[k] # h[k] }

\* The transform computes from what it read, writes m or makes new
\* messages, and returns; Apply appends the records returned.
GoWrite(c) ==
    /\ go[c].pc = "write"
    /\ LET m == CurrentMessage(c)
           r == Transform(CurrentTransform(c), [heap EXCEPT ![m] = go[c].arg], m)
       IN  /\ heap' = r.heap
           /\ owner' = owner \o [k \in 1..(Len(r.heap) - Len(heap)) |-> c]
           /\ accesses' = accesses \cup
                  { Access("write", c, k) : k \in Written(heap, r.heap) }
           /\ go' = returned(c, r.out, r.err)
    /\ UNCHANGED <<mu, alone>>
    /\ UNCHANGED <<msgVars, parseVars>>
    /\ UNCHANGED <<tf, msgs, resultMsgs, nextResultMsgs, stage, rec, pc, ret,
                   calls, stdout>>

\* sendStdout.Transform is entered: the caller is at tf.mu.Lock().
GoEnter(c) ==
    /\ go[c].pc = "range"
    /\ go[c].rec <= Len(go[c].resultMsgs)
    /\ CurrentTransform(c).type = "send_stdout"
    /\ go' = [go EXCEPT ![c].pc = "lock"]
    /\ UNCHANGED <<mu, owner, alone, accesses>>
    /\ UNCHANGED <<msgVars, applyVars, parseVars>>

\* Whether tf.mu.Lock() of the transform at index i can return.
Unlocked(i) == mu[i] = 0

\* tf.mu.Lock() returns.
GoLock(c) ==
    /\ go[c].pc = "lock"
    /\ Unlocked(go[c].stage + 1)
    /\ mu' = [mu EXCEPT ![go[c].stage + 1] = c]
    /\ go' = [go EXCEPT ![c].pc = "locked"]
    /\ UNCHANGED <<owner, alone, accesses>>
    /\ UNCHANGED <<msgVars, applyVars, parseVars>>

\* if msg.IsControl() { return ... }; fmt.Println(string(msg.Data()))
GoPrint(c) ==
    /\ go[c].pc = "locked"
    /\ LET m == CurrentMessage(c)
       IN  /\ stdout' = IF IsControl(heap[m]) THEN stdout
                        ELSE Append(stdout, Data(heap[m]))
           /\ accesses' = accesses \cup
                  ({Access("read", c, m)} \cup
                   IF IsControl(heap[m]) THEN {} ELSE {Access("print", c, m)})
    /\ go' = [go EXCEPT ![c].pc = "unlock"]
    /\ UNCHANGED <<mu, owner, alone>>
    /\ UNCHANGED <<msgVars, parseVars>>
    /\ UNCHANGED <<tf, heap, msgs, resultMsgs, nextResultMsgs, stage, rec, pc,
                   ret, calls>>

\* The mutexes when Unlock is called on the path that prints alone.
releasedAfterPrint(c) ==
    IF IsControl(heap[go[c].resultMsgs[go[c].rec]]) THEN mu
    ELSE [mu EXCEPT ![go[c].stage + 1] = 0]

\* The mutexes after the deferred tf.mu.Unlock() of the invocation of
\* caller c, which runs on every return.
released(c) == [mu EXCEPT ![go[c].stage + 1] = 0]

\* The deferred tf.mu.Unlock() runs, Transform returns msg, and Apply
\* appends it.
GoUnlock(c) ==
    /\ go[c].pc = "unlock"
    /\ mu' = released(c)
    /\ go' = returned(c, <<CurrentMessage(c)>>, NoError)
    /\ UNCHANGED <<owner, alone, accesses>>
    /\ UNCHANGED <<msgVars, applyVars, parseVars>>

\* The range is exhausted: resultMsgs = nextResultMsgs, i++.
GoNextStage(c) ==
    /\ go[c].pc = "range"
    /\ go[c].rec > Len(go[c].resultMsgs)
    /\ go' = [go EXCEPT ![c].resultMsgs = go[c].nextResultMsgs,
                        ![c].stage = @ + 1, ![c].pc = "for"]
    /\ UNCHANGED <<mu, owner, alone, accesses>>
    /\ UNCHANGED <<msgVars, applyVars, parseVars>>

\* The loop condition fails: return resultMsgs, nil.
GoReturn(c) ==
    /\ go[c].pc = "for"
    /\ ~(Len(go[c].resultMsgs) > 0 /\ go[c].stage < Len(tf))
    /\ go' = [go EXCEPT ![c].ret = [msgs |-> go[c].resultMsgs, err |-> NoError],
                        ![c].pc = "done"]
    /\ UNCHANGED <<mu, owner, alone, accesses>>
    /\ UNCHANGED <<msgVars, applyVars, parseVars>>

GoNext ==
    \/ \E c \in DOMAIN go : GoStage(c)
    \/ \E c \in DOMAIN go : GoRead(c)
    \/ \E c \in DOMAIN go : GoWrite(c)
    \/ \E c \in DOMAIN go : GoEnter(c)
    \/ \E c \in DOMAIN go : GoLock(c)
    \/ \E c \in DOMAIN go : GoPrint(c)
    \/ \E c \in DOMAIN go : GoUnlock(c)
    \/ \E c \in DOMAIN go : GoNextStage(c)
    \/ \E c \in DOMAIN go : GoReturn(c)

SpecGo == GoInit /\ [][GoNext]_vars

-----------------------------------------------------------------------------
(* Callers that share lists of sendStdout alone: the steps of the callers   *)
(* are those of Apply and of sendStdout.Transform.                          *)

StdoutTransformInputs ==
    { <<[type |-> "send_stdout"]>>,
      <<[type |-> "send_stdout"], [type |-> "send_stdout"]>> }

StdoutInit == GoInitWith(StdoutTransformInputs)

\* The callers of the inputs with the most callers.
Callers == {1, 2, 3}

\* A step of caller c.
StdoutStep(c) ==
    /\ c \in DOMAIN go
    /\ \/ GoStage(c)
       \/ GoEnter(c)
       \/ GoLock(c)
       \/ GoPrint(c)
       \/ GoUnlock(c)
       \/ GoNextStage(c)
       \/ GoReturn(c)

StdoutNext ==
    \/ \E c \in DOMAIN go : GoStage(c)
    \/ \E c \in DOMAIN go : GoEnter(c)
    \/ \E c \in DOMAIN go : GoLock(c)
    \/ \E c \in DOMAIN go : GoPrint(c)
    \/ \E c \in DOMAIN go : GoUnlock(c)
    \/ \E c \in DOMAIN go : GoNextStage(c)
    \/ \E c \in DOMAIN go : GoReturn(c)

\* The scheduler of Go runs a goroutine that stays able to take a step: a
\* caller that is not in Lock always is, and a caller in Lock is whenever
\* the mutex is unlocked (Unlock wakes a goroutine that waits in Lock).
SpecStdout ==
    StdoutInit /\ [][StdoutNext]_vars /\ \A c \in Callers : WF_vars(StdoutStep(c))

-----------------------------------------------------------------------------
(* What a path addresses, as the path grammar reads it: the root token      *)
(* names the tree and the segments after it are resolved inside that tree.  *)

\* "$", "meta.$", or one of them followed by a dot.
RootedShape(p) ==
    \/ p = "$"
    \/ p = "meta.$"
    \/ HasPrefix(p, "$.")
    \/ HasPrefix(p, "meta.$.")

IsFieldPath(p) == HasPrefix(p, "$.") \/ HasPrefix(p, "meta.$.")

\* The segments that follow the root token of a field path.
SegmentsAfterRoot(p) ==
    IF HasPrefix(p, "meta.$.")
    THEN Split(SubSeq(p, 8, Len(p)), ".")
    ELSE Split(SubSeq(p, 3, Len(p)), ".")

\* The buffer a path is rooted in.
RootBuffer(m, p) == IF HasPrefix(p, "meta.") THEN m.meta ELSE m.data

OtherBuffer(m, p) == IF HasPrefix(p, "meta.") THEN m.data ELSE m.meta

HoldsMapping(buf) == buf.k = "json" /\ IsMap(buf.v)

IsIndexOf(seg, a) ==
    /\ Len(seg) > 0
    /\ \A i \in 1..Len(seg) : IsDigit(Char(seg, i))
    /\ DecimalValue(seg) < Len(a)

\* The node the segments lead to from tree: "present" with the node,
\* "missing" when a mapping on the way lacks the key, "blocked" otherwise.
RECURSIVE Addressed(_, _)
Addressed(tree, segs) ==
    IF Len(segs) = 0 THEN [kind |-> "present", val |-> tree]
    ELSE CASE IsMap(tree) ->
                IF Head(segs) \in DOMAIN tree.m
                THEN Addressed(tree.m[Head(segs)], Tail(segs))
                ELSE [kind |-> "missing", val |-> GoNil]
           [] IsSlice(tree) /\ IsIndexOf(Head(segs), tree.a) ->
                Addressed(tree.a[DecimalValue(Head(segs)) + 1], Tail(segs))
           [] OTHER -> [kind |-> "blocked", val |-> GoNil]

\* Every node the segments pass through, as far as it exists, is a mapping.
RECURSIVE ThroughMappings(_, _)
ThroughMappings(tree, segs) ==
    /\ IsMap(tree)
    /\ \/ Len(segs) <= 1
       \/ Head(segs) \notin DOMAIN tree.m
       \/ ThroughMappings(tree.m[Head(segs)], Tail(segs))

\* tree with value stored at the key path segs, every missing mapping on the
\* way created empty.
RECURSIVE StoredAtKeys(_, _, _)
StoredAtKeys(tree, segs, value) ==
    IF Len(segs) = 1 THEN GoMap(MapPut(tree.m, Head(segs), value))
    ELSE GoMap(MapPut(tree.m, Head(segs),
                      StoredAtKeys(IF Head(segs) \in DOMAIN tree.m
                                   THEN tree.m[Head(segs)] ELSE EmptyMap,
                                   Tail(segs), value)))

SetSucceeded == last.op = "SetValue" /\ ~last.err

-----------------------------------------------------------------------------
(* C1 *)

\* C1 as stated: after SetValue(p, v) returned without error on a field path
\* p, GetValue(p) returns v and Exists() is true, for every value v.
C1_RoundTripEveryValue ==
    (SetSucceeded /\ IsFieldPath(last.path)) =>
        /\ GetValue(msg, last.path) = [value |-> last.value, exists |-> TRUE]
        /\ Exists(GetValue(msg, last.path))

\* C1 amended: after SetValue(p, v) returned without error on a field path p,
\* GetValue(p) returns v as JSON decodes it (a number comes back as a
\* float64) and Exists() is true when v is not null; when v is null the
\* value returned is nil and Exists() is false.
C1_RoundTrip ==
    (SetSucceeded /\ IsFieldPath(last.path)) =>
        /\ GetValue(msg, last.path) =
              [value |-> Decoded(last.value), exists |-> TRUE]
        /\ Exists(GetValue(msg, last.path)) <=> (last.value # GoNil)

C1_Witness ==
    /\ SetSucceeded
    /\ last.path = "$.a.b.c"
    /\ last.value = GoMap([k |-> GoString("v")])
    /\ pre.data = Json(DocTree)
    /\ GetValue(msg, "$.a.b.c") = [value |-> last.value, exists |-> TRUE]

-----------------------------------------------------------------------------
(* C2 *)

\* C2: for a tree that is a mapping, GetValue of a field path returns the
\* node its segments after the root token lead to through the tree's keys,
\* with existence true, and has existence false when a key on the way is
\* missing.
C2_GetResolvesInsideTree ==
    \A p \in {q \in PathInputs : IsFieldPath(q)} :
        HoldsMapping(RootBuffer(msg, p)) =>
            /\ Addressed(RootBuffer(msg, p).v, SegmentsAfterRoot(p)).kind = "present"
                   => GetValue(msg, p) =
                        [value  |-> Addressed(RootBuffer(msg, p).v,
                                              SegmentsAfterRoot(p)).val,
                         exists |-> TRUE]
            /\ Addressed(RootBuffer(msg, p).v, SegmentsAfterRoot(p)).kind = "missing"
                   => ~Exists(GetValue(msg, p))

-----------------------------------------------------------------------------
(* C3 *)

\* C3: SetValue with a field path on a tree that is a mapping stores the
\* value at the key path of its segments after the root token, creates the
\* missing mappings on the way, and leaves every other key and the other
\* tree unchanged.
C3_SetStoresAtKeyPath ==
    ( /\ last.op = "SetValue"
      /\ IsFieldPath(last.path)
      /\ HoldsMapping(RootBuffer(pre, last.path))
      /\ ThroughMappings(RootBuffer(pre, last.path).v, SegmentsAfterRoot(last.path)) )
    =>
      /\ ~last.err
      /\ RootBuffer(msg, last.path) =
            Json(StoredAtKeys(RootBuffer(pre, last.path).v,
                              SegmentsAfterRoot(last.path), Decoded(last.value)))
      /\ OtherBuffer(msg, last.path) = OtherBuffer(pre, last.path)

-----------------------------------------------------------------------------
(* C4 *)

ParentBefore ==
    Addressed(RootBuffer(pre, last.path).v, ParentPath(SegmentsAfterRoot(last.path)))

ParentAfter ==
    Addressed(RootBuffer(msg, last.path).v, ParentPath(SegmentsAfterRoot(last.path)))

DeletedSegment == LastPart(SegmentsAfterRoot(last.path))

\* C4: after DeleteValue(p), when the last segment of p was a key of a
\* mapping, GetValue(p) has existence false, the key is gone and the sibling
\* keys keep their values; when it was an in-range index of an array, that
\* element is null, the length is unchanged and the other elements keep
\* their values.
C4_DeleteThenGet ==
    ( /\ last.op = "DeleteValue"
      /\ IsFieldPath(last.path)
      /\ HoldsMapping(RootBuffer(pre, last.path))
      /\ ParentBefore.kind = "present" )
    =>
      /\ (IsMap(ParentBefore.val) /\ DeletedSegment \in DOMAIN ParentBefore.val.m)
            => /\ ~last.err
               /\ ~Exists(GetValue(msg, last.path))
               /\ HoldsMapping(RootBuffer(msg, last.path))
               /\ ParentAfter.kind = "present"
               /\ ParentAfter.val = GoMap(MapDelete(ParentBefore.val.m, DeletedSegment))
      /\ (IsSlice(ParentBefore.val) /\ IsIndexOf(DeletedSegment, ParentBefore.val.a))
            => /\ ~last.err
               /\ HoldsMapping(RootBuffer(msg, last.path))
               /\ ParentAfter.kind = "present"
               /\ ParentAfter.val =
                     GoSlice([ParentBefore.val.a
                                 EXCEPT ![DecimalValue(DeletedSegment) + 1] = GoNil])

-----------------------------------------------------------------------------
(* C5 *)

PathCall == last.op \in {"SetValue", "DeleteValue"}

\* C5 as stated: for every path that is not of the rooted shape, SetValue
\* and DeleteValue return an error and leave the message unchanged, and
\* GetValue has existence false.
C5_UnrootedPathFails ==
    /\ (PathCall /\ ~RootedShape(last.path)) => (last.err /\ msg = pre)
    /\ \A p \in PathInputs : ~RootedShape(p) => ~Exists(GetValue(msg, p))

\* C5 amended: for every path that, once its surrounding white space is
\* trimmed, is not of the rooted shape, SetValue and DeleteValue return an
\* error and leave the message unchanged, and GetValue has existence false.
C5_UnrootedTrimmedPathFails ==
    /\ (PathCall /\ ~RootedShape(TrimSpace(last.path))) => (last.err /\ msg = pre)
    /\ \A p \in PathInputs :
          ~RootedShape(TrimSpace(p)) => ~Exists(GetValue(msg, p))

C5_Witness ==
    /\ last.op = "DeleteValue"
    /\ last.path = "meta foo"
    /\ last.err
    /\ msg.data = Json(DocTree)
    /\ msg = pre

-----------------------------------------------------------------------------
(* C6, C7, C8: what the history of Transform invocations shows *)

Failing(c) == c.err # NoError

\* C6: Apply is all-or-nothing.  A Transform invocation that returned an
\* error is the last invocation of the run, and Apply has returned that
\* error together with zero records.
C6_AllOrNothing ==
    \A n \in DOMAIN calls :
        Failing(calls[n]) =>
            /\ n = Len(calls)
            /\ pc = "done"
            /\ ret = [msgs |-> <<>>, err |-> calls[n].err]

\* A run where the second record of a stage failed after the first had
\* given its output, with a stage still to come.
C6_Witness ==
    /\ pc = "done"
    /\ ret.err # NoError
    /\ Len(calls) = 2
    /\ calls[1].stage = calls[2].stage
    /\ calls[1].out # <<>>
    /\ Failing(calls[2])
    /\ stage + 1 < Len(tf)

\* The invocations of one stage, in the order they were made.
StageCalls(s) == SelectSeq(calls, LAMBDA c : c.stage = s)

\* The records a stage was invoked on, in order.
InvokedOn(s) == [n \in DOMAIN StageCalls(s) |-> StageCalls(s)[n].m]

\* The record lists a sequence of invocations returned, concatenated.
RECURSIVE Concatenated(_)
Concatenated(cs) ==
    IF cs = <<>> THEN <<>> ELSE Head(cs).out \o Concatenated(Tail(cs))

\* The batch of a stage: the input batch, or what the stage before returned.
BatchOf(s) == IF s = 0 THEN msgs ELSE Concatenated(StageCalls(s - 1))

IsPrefix(a, b) == Len(a) <= Len(b) /\ SubSeq(b, 1, Len(a)) = a

\* The stages that were invoked at least once.
StagesRun == { calls[n].stage : n \in DOMAIN calls }

\* How many stages a run without error went through.
StagesDone == IF calls = <<>> THEN 0 ELSE calls[Len(calls)].stage + 1

\* C7: stages run in list order and records in batch order.  The history
\* starts at stage 0 and moves on one stage at a time; a stage is invoked on
\* its batch from the front, the batch being the concatenation, in order, of
\* what the stage before returned; a later stage is invoked only once the
\* stage before has been invoked on its whole batch; and a run without
\* error returns the batch after the last stage it went through.
C7_StageAndRecordOrder ==
    /\ calls # <<>> => calls[1].stage = 0
    /\ \A n \in 1..(Len(calls) - 1) :
          calls[n + 1].stage \in {calls[n].stage, calls[n].stage + 1}
    /\ \A s \in StagesRun :
          /\ IsPrefix(InvokedOn(s), BatchOf(s))
          /\ s + 1 \in StagesRun => InvokedOn(s) = BatchOf(s)
    /\ (pc = "done" /\ ret.err = NoError) =>
          /\ \A s \in StagesRun : InvokedOn(s) = BatchOf(s)
          /\ ret.msgs = BatchOf(StagesDone)
          /\ ret.msgs # <<>> => StagesDone = Len(tf)

\* A finished run of two stages where the first stage returned two records
\* for one input record and none for another.
C7_Witness ==
    /\ pc = "done"
    /\ ret.err = NoError
    /\ Len(tf) = 2
    /\ \E a, b \in DOMAIN calls :
          /\ calls[a].stage = 0 /\ Len(calls[a].out) = 2
          /\ calls[b].stage = 0 /\ calls[b].out = <<>>
    /\ Len(InvokedOn(1)) = 2
    /\ Len(ret.msgs) = 2

\* C8: control-record pass-through.  Every Transform invocation on a record
\* whose control flag is set returns exactly that record without error,
\* leaves the record as it was, and calls none of GetValue, SetValue and
\* DeleteValue on it.
C8_ControlPassThrough ==
    \A n \in DOMAIN calls :
        calls[n].before.ctrl =>
            /\ calls[n].err = NoError
            /\ calls[n].out = <<calls[n].m>>
            /\ calls[n].after = calls[n].before
            /\ ~calls[n].touched

-----------------------------------------------------------------------------
(* C9 *)

\* C9: once the message is a control message its payload and metadata are
\* cleared and inaccessible: Data() and Metadata() return nothing and
\* GetValue has existence false on every path.
C9_ControlHoldsNothing ==
    msg.ctrl =>
        /\ Data(msg) = NoBytes
        /\ Metadata(msg) = NoBytes
        /\ \A p \in PathInputs : ~Exists(GetValue(msg, p))

-----------------------------------------------------------------------------
(* C10 *)

\* C10: compilation is deterministic.  Any two runs of Parse on the same
\* script give the same error or descriptor lists equal in length, order,
\* kind and every setting.
C10_ParseDeterministic ==
    \A a, b \in DOMAIN parsed : parsed[a] = parsed[b]

-----------------------------------------------------------------------------
(* C11 *)

\* The descriptor d has the string s under key.
Has(d, key, s) == key \in DOMAIN d /\ d[key] = GoString(s)

\* The field a nested call hands its result through (sublang.go, line 161).
IntermediateField == "$.nested_output"

\* C11: nested-call flattening.  A line outer(inner(x)) compiles to exactly
\* two descriptors: first that of inner, with source x and the intermediate
\* field as its target, then that of outer, with the intermediate field as
\* its source.
C11_NestedFlattening ==
    \A c \in NestedCases : \A n \in DOMAIN parsed :
        script = NestedLine(c) =>
            /\ parsed[n].err = NoError
            /\ Len(parsed[n].transforms) = 2
            /\ Has(parsed[n].transforms[1], "type", c.inner)
            /\ Has(parsed[n].transforms[1], "source", c.x)
            /\ Has(parsed[n].transforms[1], "target", IntermediateField)
            /\ Has(parsed[n].transforms[2], "type", c.outer)
            /\ Has(parsed[n].transforms[2], "source", IntermediateField)

-----------------------------------------------------------------------------
(* C12 *)

\* Parse returned an error and no descriptor.
Refused(r) == r.err # NoError /\ r.transforms = <<>>

\* C12: builtin positional restriction.  A call of a builtin kind with two
\* positional arguments, each a payload path or a nested call, or with one
\* positional argument that is neither, fails to compile and gives no
\* descriptor.
C12_BuiltinPositional ==
    \A c \in BuiltinCases : \A n \in DOMAIN parsed :
        script = BuiltinLine(c) => Refused(parsed[n])

-----------------------------------------------------------------------------
(* C13 *)

\* C13: assignment target override.  A line T = f(args) compiles to the
\* descriptor of f with target T, also when args names another target.
C13_TargetOverride ==
    \A c \in TargetedCases : \A n \in DOMAIN parsed :
        script = TargetedLine(c) =>
            /\ parsed[n].err = NoError
            /\ Len(parsed[n].transforms) = 1
            /\ Has(parsed[n].transforms[1], "type", c.func)
            /\ Has(parsed[n].transforms[1], "target", c.target)

-----------------------------------------------------------------------------
(* C14 *)

\* C14: direct assignment.  A line with a "=" and no "(" compiles to exactly
\* one descriptor, whose target is the trimmed text left of the first "="
\* and whose source is the trimmed text right of it, whatever the source
\* is; when either side is empty after trimming, compilation fails with an
\* error and no descriptor.
C14_DirectAssignment ==
    \A c \in DirectCases : \A n \in DOMAIN parsed :
        script = DirectLine(c) =>
            IF c.target = "" \/ c.source = ""
            THEN Refused(parsed[n])
            ELSE /\ parsed[n].err = NoError
                 /\ Len(parsed[n].transforms) = 1
                 /\ Has(parsed[n].transforms[1], "target", c.target)
                 /\ Has(parsed[n].transforms[1], "source", c.source)

\* A padded assignment whose source holds a second "=" was compiled.
C14_Witness ==
    /\ parsed # <<>>
    /\ script = "  meta.$.k  =  $.a=1  "
    /\ Len(parsed[1].transforms) = 1
    /\ Has(parsed[1].transforms[1], "target", "meta.$.k")
    /\ Has(parsed[1].transforms[1], "source", "$.a=1")

-----------------------------------------------------------------------------
(* C15 *)

\* C15: name normalization.  A call of an alias compiles to a descriptor of
\* the alias's canonical kind, under Parser.Parse and under
\* functionToTransformType; a name that is no alias is kept as the kind.
C15_NameNormalization ==
    \A c \in AliasCases : \A n \in DOMAIN parsed :
        script = AliasLine(c) =>
            /\ parsed[n].err = NoError
            /\ Len(parsed[n].transforms) = 1
            /\ Has(parsed[n].transforms[1], "type", c.kind)
            /\ functionToTransformType(c.name) = c.kind

-----------------------------------------------------------------------------
(* C17 *)

\* Lines that do not compile: no line form, a builtin's positional argument
\* that is no path, and a call whose nested call does not compile.
FailingLines ==
    { "bogus line", "lowercase_string(foo)", "custom(lowercase_string(foo))" }

ScriptLines == Split(script, "\n")

\* C17: compilation has no partial success.  When a line of the script
\* fails to parse, whichever line it is and however many lines before it
\* compiled, Parse returns an error and no descriptor.
C17_NoPartialSuccess ==
    \A n \in DOMAIN parsed :
        (\E k \in DOMAIN ScriptLines : ScriptLines[k] \in FailingLines) =>
            Refused(parsed[n])

\* A script was parsed whose first line compiles to two descriptors and
\* whose second line fails in its nested call.
C17_Witness ==
    /\ script = "lowercase_string(decode_base64($.a))\ncustom(lowercase_string(foo))"
    /\ parsed # <<>>
    /\ Refused(parsed[1])

-----------------------------------------------------------------------------
(* C18 *)

\* The buffer a root token names.
TreeBuffer(m, root) == IF root = "$" THEN m.data ELSE m.meta

WholeRoots == { "$", "meta.$" }

\* C18: whole-root operations, for the payload root and the metadata root.
\* GetValue of the root returns the entire tree the buffer holds; after
\* SetValue(root, v) has returned without error, GetValue(root) returns v,
\* as a JSON value, and nothing of the old tree; after DeleteValue(root),
\* GetValue(root) returns an empty mapping.
C18_WholeRoot ==
    \A root \in WholeRoots :
        /\ TreeBuffer(msg, root).k = "json" =>
              GetValue(msg, root) =
                  [value |-> TreeBuffer(msg, root).v, exists |-> TRUE]
        /\ (last.op = "SetValue" /\ last.path = root) =>
              /\ ~last.err
              /\ GetValue(msg, root) =
                    [value |-> Decoded(last.value), exists |-> TRUE]
        /\ (last.op = "DeleteValue" /\ last.path = root) =>
              /\ ~last.err
              /\ GetValue(msg, root) = [value |-> EmptyMap, exists |-> TRUE]

\* A mapping was set at the payload root of a message that held another
\* mapping, and GetValue of the root returns the new one alone.
C18_Witness ==
    /\ last.op = "SetValue"
    /\ last.path = "$"
    /\ last.value = GoMap([k |-> GoString("v")])
    /\ pre.data = Json(DocTree)
    /\ GetValue(pre, "$").value = DocTree
    /\ GetValue(msg, "$").value = last.value

-----------------------------------------------------------------------------
(* The run of the command on the script split, print *)

EndToEndScript == "split($.data, separator=\"|\")\nprint()"

EndToEndPayload == Json(GoMap([data |-> GoString("a|b|c")]))

\* The payloads of the records a run returned, in order.
ReturnedPayloads == [n \in DOMAIN ret.msgs |-> Data(heap[ret.msgs[n]])]

\* C16: the script split($.data, separator="|") then print() compiles, its
\* descriptors are instantiated, and the run on one record with the payload
\* {"data":"a|b|c"} returns, without an error, three records with the
\* payloads "a", "b" and "c" in that order.
C16_EndToEnd ==
    (/\ script = EndToEndScript
     /\ pc = "done"
     /\ heap[1] = SetData(New, EndToEndPayload))
        => /\ parsed[1].err = NoError
           /\ ret.err = NoError
           /\ ReturnedPayloads = <<Text("a"), Text("b"), Text("c")>>

-----------------------------------------------------------------------------
(* Callers at the same time *)

\* What caller c got from Transform, once it has returned.
Got(c) == Result(heap, go[c].ret.msgs, go[c].ret.err)

\* C19: when callers invoke Vibestation.Transform on the same list of
\* transforms at the same time, each with a batch of its own, then in every
\* interleaving each caller gets the records (count, order, payloads) or
\* the error it gets when it runs alone, and no invocation reads or writes
\* a record of the batch of another caller.
C19_ConcurrentTransform ==
    /\ \A c \in DOMAIN go : go[c].pc = "done" => Got(c) = alone[c]
    /\ \A a \in accesses : owner[a.cell] = a.caller

\* Two callers have returned two records each, and the lines they printed
\* alternate on the console.
C19_Witness ==
    /\ tf = <<[type |-> "split_string", separator |-> "\n"],
              [type |-> "send_stdout"]>>
    /\ DOMAIN go = {1, 2}
    /\ \A c \in DOMAIN go : go[c].pc = "done" /\ Len(go[c].ret.msgs) = 2
    /\ stdout = <<Text("X"), Text("1"), Text("Y"), Text("2")>>
    /\ \E a \in accesses : a.op = "write" /\ a.caller = 2

-----------------------------------------------------------------------------
(* The mutex of sendStdout *)

\* Caller c is inside sendStdout.Transform of the transform at index i,
\* after Lock has returned and before the deferred Unlock.
InCriticalSection(c, i) ==
    /\ c \in DOMAIN go
    /\ go[c].pc \in {"locked", "unlock"}
    /\ go[c].stage + 1 = i

\* Caller c is blocked in tf.mu.Lock().
AtLock(c) == c \in DOMAIN go /\ go[c].pc = "lock"

\* Caller c holds the mutex of some transform.
Holding(c) == \E i \in DOMAIN mu : mu[i] = c

MutualExclusion ==
    \A i \in DOMAIN tf : \A c, d \in DOMAIN go :
        InCriticalSection(c, i) /\ InCriticalSection(d, i) => c = d

PrintsUnderLock == \A a \in accesses : a.op = "print" => a.held

\* C20: for one sendStdout shared by callers that invoke it at the same
\* time, at most one invocation is between the Lock and the Unlock of its
\* mutex, a payload is written to the console only by an invocation that
\* holds the mutex, and every invocation, that of a control message too,
\* unlocks the mutex, so that no invocation stays blocked in Lock.
C20_ConsoleSerialized ==
    /\ [](MutualExclusion /\ PrintsUnderLock)
    /\ \A c \in Callers : Holding(c) ~> ~Holding(c)
    /\ \A c \in Callers : AtLock(c) ~> ~AtLock(c)

\* One caller is blocked in Lock while another, in the early return for a
\* control message, holds the mutex; a payload was printed before.
C20_Witness ==
    /\ tf = <<[type |-> "send_stdout"]>>
    /\ \E c, d \in DOMAIN go :
          /\ AtLock(c)
          /\ go[d].pc = "unlock"
          /\ mu[1] = d
          /\ IsControl(heap[CurrentMessage(d)])
    /\ \E a \in accesses : a.op = "print"

-----------------------------------------------------------------------------
(* C21 *)

\* The last call was DeleteValue of a field path on a tree that is a mapping.
DeletedInTree ==
    /\ last.op = "DeleteValue"
    /\ IsFieldPath(last.path)
    /\ HoldsMapping(RootBuffer(pre, last.path))

\* The segment has a character that is not a digit.
NonNumeric(seg) == \E i \in 1..Len(seg) : ~IsDigit(Char(seg, i))

\* C21: DeleteValue through a path whose parent does not exist returns no
\* error and leaves the tree unchanged, and DeleteValue whose last segment
\* addresses an element of an array by a segment that is not a number
\* returns an error.
C21_DeleteAbsentOrInvalid ==
    DeletedInTree =>
        /\ ParentBefore.kind # "present"
              => ~last.err /\ RootBuffer(msg, last.path) = RootBuffer(pre, last.path)
        /\ (ParentBefore.kind = "present" /\ IsSlice(ParentBefore.val)
                /\ NonNumeric(DeletedSegment))
              => last.err

-----------------------------------------------------------------------------
(* C22 *)

\* The segment is the decimal numeral of a non-negative integer.
IsIndex(seg) == Len(seg) > 0 /\ \A i \in 1..Len(seg) : IsDigit(Char(seg, i))

Max(a, b) == IF a >= b THEN a ELSE b

\* The array a after an assignment of value to the element i (from 0): as
\* long as the larger of Len(a) and i + 1, null between the old end and i.
ArrayWith(a, i, value) ==
    [n \in 1..Max(Len(a), i + 1) |->
        IF n = i + 1 THEN value
        ELSE IF n <= Len(a) THEN a[n] ELSE GoNil]

\* C22: when the parent of the last segment is an array of length n and
\* the segment is a non-negative integer i, SetValue succeeds and the array
\* has afterwards the length max(n, i+1), the value at i, null at n..i-1
\* and its other elements unchanged; when the segment is not a non-negative
\* integer, SetValue returns an error and the tree is unchanged.
C22_SetIntoArray ==
    ( /\ last.op = "SetValue"
      /\ IsFieldPath(last.path)
      /\ HoldsMapping(RootBuffer(pre, last.path))
      /\ ParentBefore.kind = "present"
      /\ IsSlice(ParentBefore.val) )
    =>
      IF IsIndex(DeletedSegment)
      THEN /\ ~last.err
           /\ HoldsMapping(RootBuffer(msg, last.path))
           /\ ParentAfter.kind = "present"
           /\ ParentAfter.val =
                 GoSlice(ArrayWith(ParentBefore.val.a, DecimalValue(DeletedSegment),
                                   Decoded(last.value)))
      ELSE /\ last.err
           /\ RootBuffer(msg, last.path) = RootBuffer(pre, last.path)

-----------------------------------------------------------------------------
(* C28 *)

PayloadRooted(p) == p = "$" \/ HasPrefix(p, "$.")

MetadataRooted(p) == p = "meta.$" \/ HasPrefix(p, "meta.$.")

\* C28: SetValue and DeleteValue with a payload-rooted path leave the
\* metadata bytes unchanged, and with a metadata-rooted path they leave the
\* payload bytes unchanged, whether the call succeeds or fails.
C28_RootsIsolated ==
    PathCall =>
        /\ PayloadRooted(last.path) => msg.meta = pre.meta
        /\ MetadataRooted(last.path) => msg.data = pre.data

\* A value was set in the metadata of a message that holds a payload.
C28_Witness ==
    /\ last.op = "SetValue"
    /\ last.path = "meta.$.source"
    /\ ~last.err
    /\ pre.data = Json(DocTree)
    /\ msg.meta # pre.meta

-----------------------------------------------------------------------------
(* C29 *)

\* C29: whenever SetValue or DeleteValue returns an error (a path of an
\* invalid shape, a walk through a scalar, an invalid array index, a payload
\* that is not JSON), payload, metadata and control flag of the record are
\* what they were before the call.
C29_ErrorLeavesRecord == (PathCall /\ last.err) => msg = pre

\* SetValue failed on an array index that is no number, on a record that
\* holds a payload.
C29_Witness ==
    /\ last.op = "SetValue"
    /\ last.err
    /\ last.path = "$.arr.x"
    /\ pre.data = Json(RootKeyTree)
    /\ msg = pre

-----------------------------------------------------------------------------
(* A failed run and the records of the caller *)

\* The invocations made on the record at position n of the heap.
CallsOn(n) == SelectSeq(calls, LAMBDA c : c.m = n)

\* What the record at position n held when Apply was called: what it held
\* before the first invocation on it, or what it holds if there was none.
Original(n) == IF CallsOn(n) = <<>> THEN heap[n] ELSE CallsOn(n)[1].before

FailedRun == pc = "done" /\ ret.err # NoError

\* C27: when Apply returns an error, it returns no record and every record
\* of the caller's input batch holds the payload and the metadata it held
\* before the call.
C27_FailedRunNoEffect ==
    FailedRun =>
        /\ ret.msgs = <<>>
        /\ \A n \in DOMAIN msgs :
              /\ heap[msgs[n]].data = Original(msgs[n]).data
              /\ heap[msgs[n]].meta = Original(msgs[n]).meta

-----------------------------------------------------------------------------
(* Malformed lines *)

\* C23: malformed lines are rejected.  A line with unbalanced parentheses,
\* with an unterminated quote in its arguments, with text after the last
\* ")" of the call, or with neither "=" nor "(", fails to compile and gives
\* no descriptor.
C23_MalformedRejected ==
    \A l \in MalformedLines : \A n \in DOMAIN parsed :
        script = l => Refused(parsed[n])

-----------------------------------------------------------------------------
(* The tokenizer of the argument text *)

\* The quote that is open and the parenthesis depth before position i of s:
\* a quote character opens quoting when none is open and the depth is zero
\* and closes it when it is the open one; a parenthesis outside quotes
\* changes the depth.
RECURSIVE ScanAt(_, _)
ScanAt(s, i) ==
    IF i = 1 THEN [quote |-> "", depth |-> 0]
    ELSE LET p == ScanAt(s, i - 1)
             c == Char(s, i - 1)
         IN  IF c \in {"\"", "'"}
             THEN IF p.quote = "" THEN (IF p.depth = 0
                                       THEN [p EXCEPT !.quote = c] ELSE p)
                  ELSE IF p.quote = c THEN [p EXCEPT !.quote = ""] ELSE p
             ELSE IF c = "(" /\ p.quote = ""
             THEN [p EXCEPT !.depth = @ + 1]
             ELSE IF c = ")" /\ p.quote = ""
             THEN [p EXCEPT !.depth = @ - 1]
             ELSE p

\* The commas at depth zero with no quote open.
SplittingCommas(s) ==
    { i \in 1..Len(s) :
        /\ Char(s, i) = ","
        /\ ScanAt(s, i).depth = 0
        /\ ScanAt(s, i).quote = "" }

\* The text between the splitting commas, every character of it, trimmed.
TrimmedPieces(s) ==
    [k \in DOMAIN Pieces(s, SplittingCommas(s)) |->
        TrimSpace(Pieces(s, SplittingCommas(s))[k])]

\* The arguments of s: its trimmed pieces that are not empty, in order.
Arguments(s) == SelectSeq(TrimmedPieces(s), LAMBDA x : x # "")

\* C24: the splitting rule of the tokenizer.  The arguments returned for an
\* argument text are the trimmed texts between its splitting commas, in the
\* order of the text, where a comma splits if and only if the depth is zero
\* and no quote is open where it stands; every other comma, in an open
\* quote or in nested parentheses, is part of its argument, and parentheses
\* change the depth only outside quotes.  (A text that is empty after
\* trimming is no argument.)  The descriptors of a call are those built
\* from these arguments.
C24_TokenizerSplitting ==
    \A a \in ArgumentInputs : \A n \in DOMAIN parsed :
        script = ArgumentLine(a) =>
            /\ parseArguments(a) = Arguments(a)
            /\ parsed[n] \in callWithArguments("custom", "",
                                  buildTransformSettings("custom", Arguments(a)))

\* A call with a comma in a nested call, a comma in quotes and a plain
\* argument was compiled: the quoted text is one argument.
C24_Witness ==
    /\ script = ArgumentLine("g(a, b), \"x,y\", c")
    /\ parsed # <<>>
    /\ parsed[1].err = NoError
    /\ Len(parsed[1].transforms) = 2
    /\ Has(parsed[1].transforms[1], "arg1", "b")
    /\ Has(parsed[1].transforms[2], "arg0", "x,y")
    /\ Has(parsed[1].transforms[2], "arg1", "c")

-----------------------------------------------------------------------------
(* The order of the descriptors of nested calls *)

\* The kinds of the descriptors of a parse, in order.
Kinds(r) == [k \in DOMAIN r.transforms |-> r.transforms[k]["type"]]

\* C25: flattening order at any depth and width.  A call whose arguments
\* hold nested calls compiles to the descriptors of the nested calls, those
\* of different arguments in the left-to-right order of the arguments,
\* followed by the descriptor of the outer call; a chain a(b(c(x)))
\* compiles to exactly [c, b, a].
C25_FlatteningOrder ==
    \A c \in FlatCases : \A n \in DOMAIN parsed :
        script = c.line =>
            /\ parsed[n].err = NoError
            /\ Kinds(parsed[n]) = [k \in DOMAIN c.kinds |-> GoString(c.kinds[k])]

-----------------------------------------------------------------------------
(* Positional arguments of custom kinds *)

\* The key of the i-th positional argument, counted from 1.
ArgKey(i) == "arg" \o Itoa(i - 1)

\* The descriptor of the outer call of a parse: the last one.
Outer(r) == r.transforms[Len(r.transforms)]

\* C26: custom kinds keep positional arguments.  A call of a name that is
\* no builtin compiles; the kind of its descriptor is the name as written,
\* and its positional arguments, those neither named nor nested calls, are
\* stored without their surrounding quotes under arg0, arg1, ... in order:
\* n of them give exactly the keys arg0..arg(n-1).
C26_CustomPositional ==
    \A c \in CustomCases : \A n \in DOMAIN parsed :
        script = CustomLine(c) =>
            /\ parsed[n].err = NoError
            /\ parsed[n].transforms # <<>>
            /\ Has(Outer(parsed[n]), "type", c.name)
            /\ \A i \in DOMAIN c.positional :
                  Has(Outer(parsed[n]), ArgKey(i), c.positional[i])
            /\ { key \in DOMAIN Outer(parsed[n]) : HasPrefix(key, "arg") }
                  = { ArgKey(i) : i \in DOMAIN c.positional }

-----------------------------------------------------------------------------
(* The kind of the descriptor of a call *)

\* C30: the kind of a descriptor is the function called.  A line f(args)
\* that compiles gives an outer descriptor whose type is f, whatever the
\* named arguments of args are, a named argument type=g included.
C30_KindIsFunction ==
    \A c \in KindCases : \A n \in DOMAIN parsed :
        (script = KindLine(c) /\ parsed[n].err = NoError) =>
            /\ parsed[n].transforms # <<>>
            /\ Has(Outer(parsed[n]), "type", c.func)

=============================================================================
